---- MODULE Spec2Model ----
(***************************************************************************)
(* Model of src/server.js: the DJ session registry (djSessions), the       *)
(* subscriber registry (djConnections), the WebSocket gateway handlers and *)
(* the HTTP session handlers.  One action per handler; every handler runs  *)
(* to completion (single-threaded event loop).                             *)
(*                                                                         *)
(* Conventions for JavaScript values:                                      *)
(*   - an object is a function from its keys (strings) to values; the      *)
(*     spread {...a, ...b} is Spread(a, b);                                *)
(*   - null in an object- or number-valued slot is Null (the empty         *)
(*     function); a number n in such a slot is written <<n>>;              *)
(*   - null / undefined in a string-valued slot (a session id) are the     *)
(*     strings NullId / UndefinedId;                                       *)
(*   - fractional levels are written in tenths (0.8 is 8);                 *)
(*   - new Date().toISOString() and Date.now() are the clock value now.    *)
(***************************************************************************)
EXTENDS Integers, Sequences, FiniteSets, TLC

VARIABLES
    now,            \* the wall clock read by Date.now() / new Date()
    djSessions,     \* Map sessionId -> session object
    djConnections,  \* Map sessionId -> Set of WebSocket connections
    readyState,     \* per connection: the socket's readyState
    wsSessionId,    \* per connection: the closure variable sessionId
    sent,           \* per connection: the messages ws.send() gave it in the last handler
    response,       \* the HTTP response written by the last handler
    bcast,          \* the broadcastToSession calls made by the last handler
    lastOp,         \* the handler that ran last, with its inputs
    ended,          \* ids of the sessions ended so far (history)
    streamState,    \* the audio stream state (let streamState)
    audioSystemState, \* microphone, talkover and master state (let audioSystemState)
    talkoverBase,   \* master volume when talkover last became active (history)
    videoState      \* the video streaming state (let videoState)

vars == <<now, djSessions, djConnections, readyState, wsSessionId, sent,
          response, bcast, lastOp, ended,
          streamState, audioSystemState, talkoverBase, videoState>>

\* the state outside the DJ session store
media == <<streamState, audioSystemState, talkoverBase, videoState>>

-----------------------------------------------------------------------------
(* Bounds *)

\* the clock runs from 0 to MaxClock
MaxClock == 1

\* the WebSocket connections (ws objects) that may ever be opened
Conns == {"c1", "c2", "c3"}
\* stands for "no connection" in lastOp (an HTTP handler, a clock tick)
NoConn == "none"

-----------------------------------------------------------------------------
(* JavaScript values *)

Null == <<>>
NullId == "null"
UndefinedId == "undefined"
EmptyBody == <<>>

Has(obj, key) == key \in DOMAIN obj

\* {...a, ...b}
Spread(a, b) ==
    [k \in DOMAIN a \cup DOMAIN b |-> IF k \in DOMAIN b THEN b[k] ELSE a[k]]

\* Object.keys(body).forEach(key => { if (key in target) target[key] = body[key] })
AssignKnown(target, body) ==
    [k \in DOMAIN target |-> IF k \in DOMAIN body THEN body[k] ELSE target[k]]

\* map.set(key, value)
MapSet(map, key, value) ==
    [k \in DOMAIN map \cup {key} |-> IF k = key THEN value ELSE map[k]]

\* map.delete(key)
MapDelete(map, key) == [k \in DOMAIN map \ {key} |-> map[k]]

\* `dj_session_${Date.now()}`
SessionIdAt(t) == "dj_session_" \o ToString(t)

SessionIds == {SessionIdAt(t) : t \in 0..MaxClock}

\* the session_id values a join_session message carries (UndefinedId: none)
JoinIds == SessionIds \cup {UndefinedId}

\* `if (sessionId)`
Truthy(id) == id # NullId /\ id # UndefinedId

-----------------------------------------------------------------------------
(* Session data structure *)

NewDeck ==
    [track |-> Null, playing |-> FALSE, position |-> 0, volume |-> 8,
     eq |-> [low |-> 0, mid |-> 0, high |-> 0], bpm |-> Null, synced |-> FALSE]

NewMixer ==
    [crossfader |-> 0, master_volume |-> 8, channel_a_volume |-> 8,
     channel_b_volume |-> 8, sync_enabled |-> FALSE]

NewAudioLevels(t) ==
    [master_left |-> 0, master_right |-> 0, channel_a_left |-> 0,
     channel_a_right |-> 0, channel_b_left |-> 0, channel_b_right |-> 0,
     updated_at |-> t]

createDJSession(sessionId, djId, sessionName, t) ==
    [id |-> sessionId, dj_id |-> djId, session_name |-> sessionName,
     started_at |-> t, is_live |-> FALSE, is_recording |-> FALSE,
     deck_a |-> NewDeck, deck_b |-> NewDeck, mixer |-> NewMixer,
     audio_levels |-> NewAudioLevels(t),
     stats |-> [current_listeners |-> 0, peak_listeners |-> 0,
                total_tracks_played |-> 0, session_duration |-> 0],
     updated_at |-> t]

-----------------------------------------------------------------------------
(* Connection manager *)

NoneSent == [c \in Conns |-> <<>>]
NoResponse == [status |-> 0]
NoBroadcast == <<>>

\* the connections broadcastToSession(sessionId, ...) sends to
Recipients(conns, ready, sessionId) ==
    IF sessionId \in DOMAIN conns
    THEN {c \in conns[sessionId] : ready[c] = "OPEN"}
    ELSE {}

\* faulty variant: sends to every open connection, whatever its session
broadcastToEveryone(conns, ready, sessionId, message) ==
    [c \in Conns |-> IF ready[c] = "OPEN" THEN <<message>> ELSE <<>>]

\* faulty variant: the first recipient is sent the event, the others are not
broadcastToFirst(conns, ready, sessionId, message) ==
    LET to == Recipients(conns, ready, sessionId)
    IN  [c \in Conns |->
            IF to # {} /\ c = CHOOSE r \in to : TRUE THEN <<message>> ELSE <<>>]

\* faulty variant: a subscriber that is not open ends the loop before anyone
\* is sent the event
broadcastUnlessDead(conns, ready, sessionId, message) ==
    [c \in Conns |->
        IF /\ c \in Recipients(conns, ready, sessionId)
           /\ \A d \in conns[sessionId] : ready[d] = "OPEN"
        THEN <<message>> ELSE <<>>]

broadcastToSession(conns, ready, sessionId, message) ==
    [c \in Conns |->
        IF c \in Recipients(conns, ready, sessionId) THEN <<message>> ELSE <<>>]

\* faulty variant: also adds ws to every other subscriber set
addConnectionToEverySession(conns, sessionId, ws) ==
    [k \in DOMAIN conns \cup {sessionId} |->
        IF k \in DOMAIN conns THEN conns[k] \cup {ws} ELSE {ws}]

addConnectionToSession(conns, sessionId, ws) ==
    LET had == IF sessionId \in DOMAIN conns THEN conns[sessionId] ELSE {}
    IN  MapSet(conns, sessionId, had \cup {ws})

\* faulty variant: drops the session's whole subscriber set
removeSessionConnections(conns, sessionId, ws) ==
    IF sessionId \in DOMAIN conns THEN MapDelete(conns, sessionId) ELSE conns

\* faulty variant: the entry of a session left without subscribers is kept
removeConnectionKeepingEntry(conns, sessionId, ws) ==
    IF sessionId \in DOMAIN conns
    THEN MapSet(conns, sessionId, conns[sessionId] \ {ws})
    ELSE conns

removeConnectionFromSession(conns, sessionId, ws) ==
    IF sessionId \in DOMAIN conns
    THEN LET left == conns[sessionId] \ {ws}
         IN  IF left = {} THEN MapDelete(conns, sessionId)
                          ELSE MapSet(conns, sessionId, left)
    ELSE conns

\* the sessions whose subscriber set holds connection c
MemberOf(conns, c) == {s \in DOMAIN conns : c \in conns[s]}

-----------------------------------------------------------------------------
(* Inputs *)

MixerPayloads == {[crossfader |-> 5], [master_volume |-> 9, gain |-> 3]}
MixerFields == DOMAIN NewMixer

AudioPayloads == {[master_left |-> 4]}

DeckPayloads == {[volume |-> 5]}
DeckLabels == {"A", "B", "C", UndefinedId}

CreateBodies == {[session_name |-> "set"], EmptyBody}

Op(name, c, sid, arg) == [op |-> name, conn |-> c, sid |-> sid, arg |-> arg]
-----------------------------------------------------------------------------
(* Audio stream, audio system and video state *)

\* the documented stream states
StreamStates == {"disconnected", "connecting", "connected", "streaming", "error"}

\* let streamState = {...}; bitrate, peak levels and current track are left out
InitialStreamState ==
    [status |-> "disconnected", statusMessage |-> "Not connected",
     connectedTime |-> 0, bytesSent |-> 0, currentListeners |-> 0,
     reconnectCount |-> 0, startTime |-> Null, config |-> Null]

\* let audioSystemState = {...}; microphone, talkover and master, without the
\* simulated peak levels
InitialAudioSystemState ==
    [microphone |-> [enabled |-> FALSE, gain |-> 70, device_id |-> Null],
     talkover |-> [enabled |-> FALSE, active |-> FALSE, duck_level |-> 25, fade_time |-> 1,
                   auto_enable |-> TRUE, original_volume |-> Null],
     master |-> [volume |-> 75]]

\* let videoState = {...}; the streaming part
InitialVideoState ==
    [streaming |-> [platforms |-> <<>>, custom_rtmp |-> <<>>,
                    is_live |-> FALSE, start_time |-> Null]]

-----------------------------------------------------------------------------
(* State after construction *)

Init ==
    /\ now = 0
    /\ djSessions = <<>>
    /\ djConnections = <<>>
    /\ readyState = [c \in Conns |-> "NONE"]
    /\ wsSessionId = [c \in Conns |-> NullId]
    /\ sent = NoneSent
    /\ response = NoResponse
    /\ bcast = NoBroadcast
    /\ lastOp = Op("init", NoConn, NullId, EmptyBody)
    /\ ended = {}
    /\ streamState = InitialStreamState
    /\ audioSystemState = InitialAudioSystemState
    /\ talkoverBase = Null
    /\ videoState = InitialVideoState

\* time passes between two handlers
Tick ==
    /\ now < MaxClock
    /\ now' = now + 1
    /\ sent' = NoneSent
    /\ response' = NoResponse
    /\ bcast' = NoBroadcast
    /\ lastOp' = Op("tick", NoConn, NullId, EmptyBody)
    /\ UNCHANGED media
    /\ UNCHANGED <<djSessions, djConnections, readyState, wsSessionId, ended>>

-----------------------------------------------------------------------------
(* WebSocket gateway: wss.on('connection') and the handlers it installs *)

Broadcast(sessionId, message) == <<[sid |-> sessionId, msg |-> message]>>

\* a client connects: the closure is created and the welcome message sent
WsConnect(c) ==
    /\ readyState[c] = "NONE"
    /\ readyState' = [readyState EXCEPT ![c] = "OPEN"]
    /\ wsSessionId' = [wsSessionId EXCEPT ![c] = NullId]
    /\ sent' = [NoneSent EXCEPT ![c] =
                  <<[type |-> "connected",
                     message |-> "Connected to OneStopRadio DJ WebSocket server"]>>]
    /\ response' = NoResponse
    /\ bcast' = NoBroadcast
    /\ lastOp' = Op("ws_connect", c, NullId, EmptyBody)
    /\ UNCHANGED media
    /\ UNCHANGED <<now, djSessions, djConnections, ended>>

\* faulty variant: the session state is broadcast to the session, not sent to
\* the joining connection alone
WsJoinSessionAnnounced(c, sid) ==
    /\ readyState[c] = "OPEN"
    /\ wsSessionId' = [wsSessionId EXCEPT ![c] = sid]
    /\ djConnections' = addConnectionToSession(djConnections, sid, c)
    /\ sent' = IF sid \in DOMAIN djSessions
               THEN broadcastToSession(djConnections', readyState, sid,
                        [type |-> "session_state", data |-> djSessions[sid]])
               ELSE NoneSent
    /\ response' = NoResponse
    /\ bcast' = NoBroadcast
    /\ lastOp' = Op("ws_join_session", c, sid, EmptyBody)
    /\ UNCHANGED media
    /\ UNCHANGED <<now, djSessions, readyState, ended>>

\* faulty variant: a re-join leaves the session joined before
WsJoinSessionLeaving(c, sid) ==
    /\ readyState[c] = "OPEN"
    /\ wsSessionId' = [wsSessionId EXCEPT ![c] = sid]
    /\ djConnections' =
          addConnectionToSession(
              removeConnectionFromSession(djConnections, wsSessionId[c], c), sid, c)
    /\ sent' = IF sid \in DOMAIN djSessions
               THEN [NoneSent EXCEPT ![c] =
                       <<[type |-> "session_state", data |-> djSessions[sid]]>>]
               ELSE NoneSent
    /\ response' = NoResponse
    /\ bcast' = NoBroadcast
    /\ lastOp' = Op("ws_join_session", c, sid, EmptyBody)
    /\ UNCHANGED media
    /\ UNCHANGED <<now, djSessions, readyState, ended>>

\* faulty variant: a join of an id that has no session is answered
WsJoinSessionReplying(c, sid) ==
    /\ readyState[c] = "OPEN"
    /\ wsSessionId' = [wsSessionId EXCEPT ![c] = sid]
    /\ djConnections' = addConnectionToSession(djConnections, sid, c)
    /\ sent' = [NoneSent EXCEPT ![c] =
                  IF sid \in DOMAIN djSessions
                  THEN <<[type |-> "session_state", data |-> djSessions[sid]]>>
                  ELSE <<[type |-> "session_not_found"]>>]
    /\ response' = NoResponse
    /\ bcast' = NoBroadcast
    /\ lastOp' = Op("ws_join_session", c, sid, EmptyBody)
    /\ UNCHANGED media
    /\ UNCHANGED <<now, djSessions, readyState, ended>>

\* case 'join_session'
WsJoinSession(c, sid) ==
    /\ readyState[c] = "OPEN"
    /\ wsSessionId' = [wsSessionId EXCEPT ![c] = sid]
    /\ djConnections' = addConnectionToSession(djConnections, sid, c)
    /\ sent' = IF sid \in DOMAIN djSessions
               THEN [NoneSent EXCEPT ![c] =
                       <<[type |-> "session_state", data |-> djSessions[sid]]>>]
               ELSE NoneSent
    /\ response' = NoResponse
    /\ bcast' = NoBroadcast
    /\ lastOp' = Op("ws_join_session", c, sid, EmptyBody)
    /\ UNCHANGED media
    /\ UNCHANGED <<now, djSessions, readyState, ended>>

\* faulty variant: the sender is sent an error reply
WsNoEffectReplying(name, c, arg) ==
    /\ sent' = [NoneSent EXCEPT ![c] =
                  <<[type |-> "error", message |-> "DJ session not found"]>>]
    /\ response' = NoResponse
    /\ bcast' = NoBroadcast
    /\ lastOp' = Op(name, c, wsSessionId[c], arg)
    /\ UNCHANGED media
    /\ UNCHANGED <<now, djSessions, djConnections, readyState, wsSessionId, ended>>

\* a message handler that found nothing to do
WsNoEffect(name, c, arg) ==
    /\ sent' = NoneSent
    /\ response' = NoResponse
    /\ bcast' = NoBroadcast
    /\ lastOp' = Op(name, c, wsSessionId[c], arg)
    /\ UNCHANGED media
    /\ UNCHANGED <<now, djSessions, djConnections, readyState, wsSessionId, ended>>

\* a message handler that stored `session` under the connection's sessionId
\* and broadcast `message` to that session
WsApplied(name, c, arg, session, message) ==
    LET sid == wsSessionId[c] IN
    /\ djSessions' = MapSet(djSessions, sid, session)
    /\ sent' = broadcastToSession(djConnections, readyState, sid, message)
    /\ bcast' = Broadcast(sid, message)
    /\ response' = NoResponse
    /\ lastOp' = Op(name, c, sid, arg)
    /\ UNCHANGED media
    /\ UNCHANGED <<now, djConnections, readyState, wsSessionId, ended>>

\* case 'audio_levels'
WsAudioLevels(c, data) ==
    LET sid == wsSessionId[c] IN
    /\ readyState[c] = "OPEN"
    /\ IF Truthy(sid) /\ sid \in DOMAIN djSessions
       THEN LET levels == Spread(data, [updated_at |-> now])
                session == [djSessions[sid] EXCEPT !.audio_levels = levels]
            IN  WsApplied("ws_audio_levels", c, data, session,
                          [type |-> "audio_levels", data |-> levels])
       ELSE WsNoEffect("ws_audio_levels", c, data)

\* faulty variant: the mixer is replaced by the payload, not merged with it
WsMixerUpdateReplacing(c, data) ==
    LET sid == wsSessionId[c] IN
    /\ readyState[c] = "OPEN"
    /\ IF Truthy(sid) /\ sid \in DOMAIN djSessions
       THEN LET session == [djSessions[sid] EXCEPT !.mixer = data,
                                                   !.updated_at = now]
            IN  WsApplied("ws_mixer_update", c, data, session,
                          [type |-> "mixer_updated", data |-> data])
       ELSE WsNoEffect("ws_mixer_update", c, data)

\* faulty variant: an update from a connection that joined no session is
\* applied to the session created first
WsMixerUpdateDefaulting(c, data) ==
    LET sid == IF Truthy(wsSessionId[c]) THEN wsSessionId[c] ELSE SessionIdAt(0) IN
    /\ readyState[c] = "OPEN"
    /\ IF sid \in DOMAIN djSessions
       THEN LET mixer == Spread(djSessions[sid].mixer, data)
                session == [djSessions[sid] EXCEPT !.mixer = mixer,
                                                   !.updated_at = now]
                message == [type |-> "mixer_updated", data |-> mixer]
            IN  /\ djSessions' = MapSet(djSessions, sid, session)
                /\ sent' = broadcastToSession(djConnections, readyState, sid, message)
                /\ bcast' = Broadcast(sid, message)
                /\ response' = NoResponse
                /\ lastOp' = Op("ws_mixer_update", c, sid, data)
                /\ UNCHANGED media
                /\ UNCHANGED <<now, djConnections, readyState, wsSessionId, ended>>
       ELSE WsNoEffect("ws_mixer_update", c, data)

\* case 'mixer_update'
WsMixerUpdate(c, data) ==
    LET sid == wsSessionId[c] IN
    /\ readyState[c] = "OPEN"
    /\ IF Truthy(sid) /\ sid \in DOMAIN djSessions
       THEN LET mixer == Spread(djSessions[sid].mixer, data)
                session == [djSessions[sid] EXCEPT !.mixer = mixer,
                                                   !.updated_at = now]
            IN  WsApplied("ws_mixer_update", c, data, session,
                          [type |-> "mixer_updated", data |-> mixer])
       ELSE WsNoEffect("ws_mixer_update", c, data)

\* message.deck === 'A' ? 'deck_a' : 'deck_b'
DeckKey(deck) == IF deck = "A" THEN "deck_a" ELSE "deck_b"

\* case 'deck_update'
WsDeckUpdate(c, deck, data) ==
    LET sid == wsSessionId[c] IN
    /\ readyState[c] = "OPEN"
    /\ IF Truthy(sid) /\ sid \in DOMAIN djSessions /\ deck # UndefinedId
       THEN LET key == DeckKey(deck)
                state == Spread(djSessions[sid][key], data)
                session == [djSessions[sid] EXCEPT ![key] = state,
                                                   !.updated_at = now]
            IN  WsApplied("ws_deck_update", c, [deck |-> deck, data |-> data],
                          session,
                          [type |-> "deck_updated", deck |-> deck, data |-> state])
       ELSE WsNoEffect("ws_deck_update", c, [deck |-> deck, data |-> data])

\* faulty variant: the acknowledgement is broadcast to the sender's session
WsHeartbeatBroadcast(c) ==
    /\ readyState[c] = "OPEN"
    /\ sent' = [k \in Conns |->
                  IF k = c \/ k \in Recipients(djConnections, readyState, wsSessionId[c])
                  THEN <<[type |-> "heartbeat_ack"]>> ELSE <<>>]
    /\ response' = NoResponse
    /\ bcast' = NoBroadcast
    /\ lastOp' = Op("ws_heartbeat", c, wsSessionId[c], EmptyBody)
    /\ UNCHANGED media
    /\ UNCHANGED <<now, djSessions, djConnections, readyState, wsSessionId, ended>>

\* case 'heartbeat'
WsHeartbeat(c) ==
    /\ readyState[c] = "OPEN"
    /\ sent' = [NoneSent EXCEPT ![c] = <<[type |-> "heartbeat_ack"]>>]
    /\ response' = NoResponse
    /\ bcast' = NoBroadcast
    /\ lastOp' = Op("ws_heartbeat", c, wsSessionId[c], EmptyBody)
    /\ UNCHANGED media
    /\ UNCHANGED <<now, djSessions, djConnections, readyState, wsSessionId, ended>>

\* faulty variant: the connection is closed and unsubscribed
WsUnknownClosing(c) ==
    /\ readyState[c] = "OPEN"
    /\ readyState' = [readyState EXCEPT ![c] = "CLOSED"]
    /\ djConnections' = IF Truthy(wsSessionId[c])
                        THEN removeConnectionFromSession(djConnections,
                                                         wsSessionId[c], c)
                        ELSE djConnections
    /\ sent' = NoneSent
    /\ response' = NoResponse
    /\ bcast' = NoBroadcast
    /\ lastOp' = Op("ws_unknown", c, wsSessionId[c], EmptyBody)
    /\ UNCHANGED media
    /\ UNCHANGED <<now, djSessions, wsSessionId, ended>>

\* default: an unknown message type, and catch: a message that does not parse
WsUnknown(c) ==
    /\ readyState[c] = "OPEN"
    /\ WsNoEffect("ws_unknown", c, EmptyBody)

\* the socket stops being OPEN before its 'close' event is delivered
WsClosing(c) ==
    /\ readyState[c] = "OPEN"
    /\ readyState' = [readyState EXCEPT ![c] = "CLOSING"]
    /\ sent' = NoneSent
    /\ response' = NoResponse
    /\ bcast' = NoBroadcast
    /\ lastOp' = Op("ws_closing", c, wsSessionId[c], EmptyBody)
    /\ UNCHANGED media
    /\ UNCHANGED <<now, djSessions, djConnections, wsSessionId, ended>>

\* ws.on('close')
WsClose(c) ==
    /\ readyState[c] \in {"OPEN", "CLOSING"}
    /\ readyState' = [readyState EXCEPT ![c] = "CLOSED"]
    /\ djConnections' = IF Truthy(wsSessionId[c])
                        THEN removeConnectionFromSession(djConnections,
                                                         wsSessionId[c], c)
                        ELSE djConnections
    /\ sent' = NoneSent
    /\ response' = NoResponse
    /\ bcast' = NoBroadcast
    /\ lastOp' = Op("ws_close", c, wsSessionId[c],
                    [subscribed |-> wsSessionId[c] \in MemberOf(djConnections, c)])
    /\ UNCHANGED media
    /\ UNCHANGED <<now, djSessions, wsSessionId, ended>>

-----------------------------------------------------------------------------
(* HTTP session handlers *)

NotFound == [status |-> 404, success |-> FALSE, error |-> "DJ session not found"]
BadRequest(error) == [status |-> 400, success |-> FALSE, error |-> error]
Ok(action, payload) ==
    Spread([status |-> 200, success |-> TRUE, action |-> action], payload)

\* a handler that returned early with an error response
HttpRejected(name, sid, arg, res) ==
    /\ response' = res
    /\ sent' = NoneSent
    /\ bcast' = NoBroadcast
    /\ lastOp' = Op(name, NoConn, sid, arg)
    /\ UNCHANGED media
    /\ UNCHANGED <<now, djSessions, djConnections, readyState, wsSessionId, ended>>

\* faulty variant: the change is stored and answered but not broadcast
HttpAppliedSilently(name, sid, arg, session, message, res) ==
    /\ djSessions' = MapSet(djSessions, sid, session)
    /\ sent' = NoneSent
    /\ bcast' = NoBroadcast
    /\ response' = res
    /\ lastOp' = Op(name, NoConn, sid, arg)
    /\ UNCHANGED media
    /\ UNCHANGED <<now, djConnections, readyState, wsSessionId, ended>>

\* a handler that stored `session` under sid, broadcast `message` to sid and
\* answered `res`
HttpApplied(name, sid, arg, session, message, res) ==
    /\ djSessions' = MapSet(djSessions, sid, session)
    /\ sent' = broadcastToSession(djConnections, readyState, sid, message)
    /\ bcast' = Broadcast(sid, message)
    /\ response' = res
    /\ lastOp' = Op(name, NoConn, sid, arg)
    /\ UNCHANGED media
    /\ UNCHANGED <<now, djConnections, readyState, wsSessionId, ended>>

\* app.post('/api/dj/sessions')
HttpCreateSession(body) ==
    IF ~(Has(body, "session_name") /\ body.session_name # "")
    THEN HttpRejected("http_create", NullId, body,
                      BadRequest("session_name is required"))
    ELSE LET sessionId == SessionIdAt(now)
             djId == IF Has(body, "dj_id") THEN body.dj_id ELSE "demo-dj"
             session == createDJSession(sessionId, djId, body.session_name, now)
         IN  /\ djSessions' = MapSet(djSessions, sessionId, session)
             /\ response' = Ok("session_created", [session |-> session])
             /\ sent' = NoneSent
             /\ bcast' = NoBroadcast
             /\ lastOp' = Op("http_create", NoConn, sessionId, body)
             /\ UNCHANGED media
             /\ UNCHANGED <<now, djConnections, readyState, wsSessionId, ended>>

\* faulty variant: drops the subscriber set but leaves the session in the store
HttpDeleteSessionKept(sid) ==
    IF sid \notin DOMAIN djSessions
    THEN HttpRejected("http_delete", sid, EmptyBody, NotFound)
    ELSE LET message == [type |-> "session_ended",
                         data |-> [session_id |-> sid, ended_at |-> now]]
         IN  /\ sent' = broadcastToSession(djConnections, readyState, sid, message)
             /\ bcast' = Broadcast(sid, message)
             /\ djConnections' = MapDelete(djConnections, sid)
             /\ djSessions' = MapSet(djSessions, sid,
                                 Spread(djSessions[sid],
                                        [ended_at |-> now, is_live |-> FALSE]))
             /\ ended' = ended \cup {sid}
             /\ response' = Ok("session_ended", [session_id |-> sid])
             /\ lastOp' = Op("http_delete", NoConn, sid, EmptyBody)
             /\ UNCHANGED media
             /\ UNCHANGED <<now, readyState, wsSessionId>>

\* app.delete('/api/dj/sessions/:sessionId')
HttpDeleteSession(sid) ==
    IF sid \notin DOMAIN djSessions
    THEN HttpRejected("http_delete", sid, EmptyBody, NotFound)
    ELSE LET session == Spread(djSessions[sid],
                               [ended_at |-> now, is_live |-> FALSE])
             message == [type |-> "session_ended",
                         data |-> [session_id |-> sid,
                                   ended_at |-> session.ended_at]]
         IN  /\ sent' = broadcastToSession(djConnections, readyState, sid, message)
             /\ bcast' = Broadcast(sid, message)
             /\ djConnections' = MapDelete(djConnections, sid)
             /\ djSessions' = MapDelete(djSessions, sid)
             /\ ended' = ended \cup {sid}
             /\ response' = Ok("session_ended", [session_id |-> sid])
             /\ lastOp' = Op("http_delete", NoConn, sid, EmptyBody)
             /\ UNCHANGED media
             /\ UNCHANGED <<now, readyState, wsSessionId>>

\* app.post('/api/dj/sessions/:sessionId/mixer')
HttpMixer(sid, body) ==
    IF sid \notin DOMAIN djSessions
    THEN HttpRejected("http_mixer", sid, body, NotFound)
    ELSE LET mixer == AssignKnown(djSessions[sid].mixer, body)
             session == [djSessions[sid] EXCEPT !.mixer = mixer,
                                                !.updated_at = now]
         IN  HttpApplied("http_mixer", sid, body, session,
                         [type |-> "mixer_updated", data |-> mixer],
                         Ok("mixer_updated", [mixer_state |-> mixer]))

\* app.post('/api/dj/sessions/:sessionId/audio-levels')
HttpAudioLevels(sid, body) ==
    IF sid \notin DOMAIN djSessions
    THEN HttpRejected("http_audio_levels", sid, body, NotFound)
    ELSE LET levels == Spread(body, [updated_at |-> now])
             session == [djSessions[sid] EXCEPT !.audio_levels = levels]
         IN  HttpApplied("http_audio_levels", sid, body, session,
                         [type |-> "audio_levels", data |-> levels],
                         Ok("audio_levels_updated", EmptyBody))

\* faulty variant: every deck label is accepted
ValidDeckAnyLabel(deck) == TRUE

\* ['A', 'B'].includes(deck)
ValidDeck(deck) == deck \in {"A", "B"}

ValidActions == {"play", "pause", "stop", "cue", "sync"}

\* body.field || fallback, for a string field the request may leave out
OrElse(body, field, fallback) ==
    IF Has(body, field) /\ body[field] # "" THEN body[field] ELSE fallback

\* `if (body.field)` for a number field the request may leave out
GivenNumber(body, field) == Has(body, field) /\ body[field] # 0

\* faulty variant: a playing deck is not stopped
HttpLoadTrackKeepingPlay(sid, deck, body) ==
    LET arg == [deck |-> deck, body |-> body] IN
    IF ~ValidDeck(deck)
    THEN HttpRejected("http_load_track", sid, arg,
                      BadRequest("Deck must be \"A\" or \"B\""))
    ELSE IF sid \notin DOMAIN djSessions
    THEN HttpRejected("http_load_track", sid, arg, NotFound)
    ELSE LET key == DeckKey(deck)
             track == [id |-> OrElse(body, "track_id", "track_" \o ToString(now)),
                       title |-> OrElse(body, "track_title", "Unknown Track"),
                       artist |-> OrElse(body, "track_artist", "Unknown Artist"),
                       duration |-> IF GivenNumber(body, "track_duration")
                                    THEN body.track_duration ELSE 0,
                       loaded_at |-> now]
             state == [djSessions[sid][key] EXCEPT
                          !.track = track,
                          !.position = 0,
                          !.bpm = IF GivenNumber(body, "bpm") THEN <<body.bpm>>
                                                           ELSE Null]
             session == [djSessions[sid] EXCEPT ![key] = state,
                                                !.updated_at = now]
         IN  HttpApplied("http_load_track", sid, arg, session,
                         [type |-> "track_loaded", deck |-> deck, data |-> state],
                         Ok("track_loaded", [deck |-> deck, track_data |-> state]))

\* app.post('/api/dj/sessions/:sessionId/tracks/:deck')
HttpLoadTrack(sid, deck, body) ==
    LET arg == [deck |-> deck, body |-> body] IN
    IF ~ValidDeck(deck)
    THEN HttpRejected("http_load_track", sid, arg,
                      BadRequest("Deck must be \"A\" or \"B\""))
    ELSE IF sid \notin DOMAIN djSessions
    THEN HttpRejected("http_load_track", sid, arg, NotFound)
    ELSE LET key == DeckKey(deck)
             track == [id |-> OrElse(body, "track_id", "track_" \o ToString(now)),
                       title |-> OrElse(body, "track_title", "Unknown Track"),
                       artist |-> OrElse(body, "track_artist", "Unknown Artist"),
                       duration |-> IF GivenNumber(body, "track_duration")
                                    THEN body.track_duration ELSE 0,
                       loaded_at |-> now]
             state == [djSessions[sid][key] EXCEPT
                          !.playing = FALSE,
                          !.track = track,
                          !.position = 0,
                          !.bpm = IF GivenNumber(body, "bpm") THEN <<body.bpm>>
                                                           ELSE Null]
             session == [djSessions[sid] EXCEPT ![key] = state,
                                                !.updated_at = now]
         IN  HttpApplied("http_load_track", sid, arg, session,
                         [type |-> "track_loaded", deck |-> deck, data |-> state],
                         Ok("track_loaded", [deck |-> deck, track_data |-> state]))

\* faulty variant: 'stop' keeps the position
ApplyPlaybackKeepingPosition(state, body) ==
    CASE body.action = "play" ->
            IF GivenNumber(body, "speed")
            THEN Spread([state EXCEPT !.playing = TRUE], [speed |-> body.speed])
            ELSE [state EXCEPT !.playing = TRUE]
      [] body.action = "pause" -> [state EXCEPT !.playing = FALSE]
      [] body.action = "stop" -> [state EXCEPT !.playing = FALSE]
      [] body.action = "cue" ->
            IF Has(body, "position")
            THEN [state EXCEPT !.playing = FALSE, !.position = body.position]
            ELSE [state EXCEPT !.playing = FALSE]
      [] body.action = "sync" -> [state EXCEPT !.synced = ~state.synced]

\* the switch (action) of the playback handler
ApplyPlayback(state, body) ==
    CASE body.action = "play" ->
            IF GivenNumber(body, "speed")
            THEN Spread([state EXCEPT !.playing = TRUE], [speed |-> body.speed])
            ELSE [state EXCEPT !.playing = TRUE]
      [] body.action = "pause" -> [state EXCEPT !.playing = FALSE]
      [] body.action = "stop" -> [state EXCEPT !.playing = FALSE, !.position = 0]
      [] body.action = "cue" ->
            IF Has(body, "position")
            THEN [state EXCEPT !.playing = FALSE, !.position = body.position]
            ELSE [state EXCEPT !.playing = FALSE]
      [] body.action = "sync" -> [state EXCEPT !.synced = ~state.synced]

\* faulty variant: the loaded track is not checked
HttpPlaybackUnchecked(sid, deck, body) ==
    LET arg == [deck |-> deck, body |-> body] IN
    IF ~ValidDeck(deck)
    THEN HttpRejected("http_playback", sid, arg,
                      BadRequest("Deck must be \"A\" or \"B\""))
    ELSE IF ~(Has(body, "action") /\ body.action \in ValidActions)
    THEN HttpRejected("http_playback", sid, arg,
                      BadRequest("Action must be one of: play, pause, stop, cue, sync"))
    ELSE IF sid \notin DOMAIN djSessions
    THEN HttpRejected("http_playback", sid, arg, NotFound)
    ELSE LET key == DeckKey(deck)
             state == ApplyPlayback(djSessions[sid][key], body)
             session == [djSessions[sid] EXCEPT ![key] = state,
                                                !.updated_at = now]
         IN  HttpApplied("http_playback", sid, arg, session,
                         [type |-> "playback_control", deck |-> deck,
                          action |-> body.action, data |-> state],
                         Ok("playback_" \o body.action,
                            [deck |-> deck, deck_state |-> state]))

\* app.post('/api/dj/sessions/:sessionId/playback/:deck')
HttpPlayback(sid, deck, body) ==
    LET arg == [deck |-> deck, body |-> body] IN
    IF ~ValidDeck(deck)
    THEN HttpRejected("http_playback", sid, arg,
                      BadRequest("Deck must be \"A\" or \"B\""))
    ELSE IF ~(Has(body, "action") /\ body.action \in ValidActions)
    THEN HttpRejected("http_playback", sid, arg,
                      BadRequest("Action must be one of: play, pause, stop, cue, sync"))
    ELSE IF sid \notin DOMAIN djSessions
    THEN HttpRejected("http_playback", sid, arg, NotFound)
    ELSE IF djSessions[sid][DeckKey(deck)].track = Null
    THEN HttpRejected("http_playback", sid, arg,
                      BadRequest("No track loaded on this deck"))
    ELSE LET key == DeckKey(deck)
             state == ApplyPlayback(djSessions[sid][key], body)
             session == [djSessions[sid] EXCEPT ![key] = state,
                                                !.updated_at = now]
         IN  HttpApplied("http_playback", sid, arg, session,
                         [type |-> "playback_control", deck |-> deck,
                          action |-> body.action, data |-> state],
                         Ok("playback_" \o body.action,
                            [deck |-> deck, deck_state |-> state]))

-----------------------------------------------------------------------------
(* HTTP session handlers: reads, patch and bpm *)

\* a handler that changes nothing and answers `res`
HttpAnswered(name, sid, arg, res) ==
    /\ response' = res
    /\ sent' = NoneSent
    /\ bcast' = NoBroadcast
    /\ lastOp' = Op(name, NoConn, sid, arg)
    /\ UNCHANGED media
    /\ UNCHANGED <<now, djSessions, djConnections, readyState, wsSessionId, ended>>

\* app.get('/api/dj/sessions/:sessionId')
HttpGetSession(sid) ==
    IF sid \notin DOMAIN djSessions
    THEN HttpRejected("http_get", sid, EmptyBody, NotFound)
    ELSE HttpAnswered("http_get", sid, EmptyBody,
                      [status |-> 200, success |-> TRUE, session |-> djSessions[sid]])

\* faulty variant: the body's fields are assigned and the time is not stamped
HttpPatchSessionUnstamped(sid, body) ==
    IF sid \notin DOMAIN djSessions
    THEN HttpRejected("http_patch", sid, body, NotFound)
    ELSE LET session == AssignKnown(djSessions[sid], body)
         IN  HttpApplied("http_patch", sid, body, session,
                         [type |-> "session_updated", data |-> session],
                         Ok("session_updated", [session |-> session]))

\* app.patch('/api/dj/sessions/:sessionId')
HttpPatchSession(sid, body) ==
    IF sid \notin DOMAIN djSessions
    THEN HttpRejected("http_patch", sid, body, NotFound)
    ELSE LET session == [AssignKnown(djSessions[sid], body) EXCEPT !.updated_at = now]
         IN  HttpApplied("http_patch", sid, body, session,
                         [type |-> "session_updated", data |-> session],
                         Ok("session_updated", [session |-> session]))

\* faulty variant: a missing session is answered with the default mixer
HttpGetMixerDefault(sid) ==
    HttpAnswered("http_get_mixer", sid, EmptyBody,
                 [status |-> 200, success |-> TRUE,
                  mixer_state |-> IF sid \in DOMAIN djSessions
                                  THEN djSessions[sid].mixer ELSE NewMixer])

\* app.get('/api/dj/sessions/:sessionId/mixer')
HttpGetMixer(sid) ==
    IF sid \notin DOMAIN djSessions
    THEN HttpRejected("http_get_mixer", sid, EmptyBody, NotFound)
    ELSE HttpAnswered("http_get_mixer", sid, EmptyBody,
                      [status |-> 200, success |-> TRUE,
                       mixer_state |-> djSessions[sid].mixer])

\* app.get('/api/dj/sessions/:sessionId/stats'); the clock counts milliseconds
HttpStats(sid) ==
    IF sid \notin DOMAIN djSessions
    THEN HttpRejected("http_stats", sid, EmptyBody, NotFound)
    ELSE LET session == djSessions[sid]
             stats == [session_id |-> sid,
                       current_time |-> now,
                       is_live |-> session.is_live,
                       uptime_seconds |-> (now - session.started_at) \div 1000,
                       deck_a_track |-> session.deck_a.track,
                       deck_b_track |-> session.deck_b.track,
                       mixer_state |-> session.mixer,
                       audio_levels |-> session.audio_levels,
                       performance |->
                          [current_listeners |-> session.stats.current_listeners,
                           peak_listeners |-> session.stats.peak_listeners,
                           total_tracks_played |-> session.stats.total_tracks_played]]
         IN  HttpAnswered("http_stats", sid, EmptyBody,
                          [status |-> 200, success |-> TRUE, stats |-> stats])

\* { bpm, synced, beat_position } of a deck; JSON leaves an undefined
\* beat_position out
BpmData(state) ==
    IF Has(state, "beat_position")
    THEN [bpm |-> state.bpm, synced |-> state.synced,
          beat_position |-> state.beat_position]
    ELSE [bpm |-> state.bpm, synced |-> state.synced]

\* app.post('/api/dj/sessions/:sessionId/bpm/:deck')
HttpBpm(sid, deck, body) ==
    LET arg == [deck |-> deck, body |-> body] IN
    IF ~ValidDeck(deck)
    THEN HttpRejected("http_bpm", sid, arg,
                      BadRequest("Deck must be \"A\" or \"B\""))
    ELSE IF sid \notin DOMAIN djSessions
    THEN HttpRejected("http_bpm", sid, arg, NotFound)
    ELSE LET key == DeckKey(deck)
             old == djSessions[sid][key]
             withBpm == IF GivenNumber(body, "bpm")
                        THEN Spread(old, [bpm |-> <<body.bpm>>]) ELSE old
             withSync == IF Has(body, "sync_enabled")
                         THEN Spread(withBpm, [synced |-> body.sync_enabled])
                         ELSE withBpm
             state == IF Has(body, "beat_position")
                      THEN Spread(withSync, [beat_position |-> body.beat_position])
                      ELSE withSync
             session == [djSessions[sid] EXCEPT ![key] = state,
                                                !.updated_at = now]
         IN  HttpApplied("http_bpm", sid, arg, session,
                         [type |-> "bpm_updated", deck |-> deck,
                          data |-> BpmData(state)],
                         Ok("bpm_updated",
                            [deck |-> deck, bpm_data |-> BpmData(state)]))

-----------------------------------------------------------------------------
(* Audio stream handlers *)

\* a handler outside the DJ session store answered res
MediaAnswered(name, arg, res) ==
    /\ response' = res
    /\ sent' = NoneSent
    /\ bcast' = NoBroadcast
    /\ lastOp' = Op(name, NoConn, NullId, arg)
    /\ UNCHANGED <<now, djSessions, djConnections, readyState, wsSessionId, ended>>

\* res.json({success: true, action, status}); the body's status field is
\* written body_status, status being the HTTP status code
StreamOk(action, status) ==
    [status |-> 200, success |-> TRUE, action |-> action, body_status |-> status]

\* !config.key for a string field and for a number field
MissingString(config, key) == ~Has(config, key) \/ config[key] = ""
MissingNumber(config, key) == ~Has(config, key) \/ config[key] = 0

\* the stream server configurations a client may post
StreamConfigs ==
    {[serverHost |-> "icecast.local", serverPort |-> 8000, password |-> "hackme"],
     [serverHost |-> "icecast.local", serverPort |-> 8000],
     [serverHost |-> "icecast.local", serverPort |-> 0, password |-> "hackme"],
     EmptyBody}

\* app.post('/api/audio/stream/connect')
HttpStreamConnect(config) ==
    IF MissingString(config, "serverHost") \/ MissingNumber(config, "serverPort")
       \/ MissingString(config, "password")
    THEN /\ MediaAnswered("stream_connect", config,
                          BadRequest("Missing required fields: serverHost, serverPort, password"))
         /\ UNCHANGED media
    ELSE /\ streamState' =
              Spread(streamState,
                     [config |-> config, status |-> "connected",
                      statusMessage |-> "Connected to " \o config.serverHost \o ":"
                                        \o ToString(config.serverPort),
                      startTime |-> <<now>>, connectedTime |-> 0, bytesSent |-> 0])
         /\ MediaAnswered("stream_connect", config,
                          StreamOk("stream_connect", "connected"))
         /\ UNCHANGED <<audioSystemState, talkoverBase, videoState>>

\* app.post('/api/audio/stream/disconnect')
HttpStreamDisconnect ==
    /\ streamState' =
         Spread(streamState,
                [status |-> "disconnected", statusMessage |-> "Disconnected",
                 currentListeners |-> 0, bytesSent |-> 0,
                 startTime |-> Null, config |-> Null])
    /\ MediaAnswered("stream_disconnect", EmptyBody,
                     StreamOk("stream_disconnect", "disconnected"))
    /\ UNCHANGED <<audioSystemState, talkoverBase, videoState>>

\* Math.floor(Math.random() * 20) + 5: the ends of the range
InitialListeners == {5, 24}

\* faulty variant: starts streaming whatever the status
HttpStreamStartUnchecked ==
    \E listeners \in InitialListeners :
        /\ streamState' =
             Spread(streamState,
                    [status |-> "streaming", statusMessage |-> "Streaming live",
                     currentListeners |-> listeners])
        /\ MediaAnswered("stream_start", EmptyBody,
                         StreamOk("streaming_start", "streaming"))
        /\ UNCHANGED <<audioSystemState, talkoverBase, videoState>>

\* app.post('/api/audio/stream/start')
HttpStreamStart ==
    IF streamState.status = "connected"
    THEN \E listeners \in InitialListeners :
            /\ streamState' =
                 Spread(streamState,
                        [status |-> "streaming", statusMessage |-> "Streaming live",
                         currentListeners |-> listeners])
            /\ MediaAnswered("stream_start", EmptyBody,
                             StreamOk("streaming_start", "streaming"))
            /\ UNCHANGED <<audioSystemState, talkoverBase, videoState>>
    ELSE /\ MediaAnswered("stream_start", EmptyBody,
                          Spread(BadRequest("Not connected to server"),
                                 [action |-> "streaming_start"]))
         /\ UNCHANGED media

\* app.post('/api/audio/stream/stop')
HttpStreamStop ==
    IF streamState.status = "streaming"
    THEN /\ streamState' =
              Spread(streamState,
                     [status |-> "connected",
                      statusMessage |-> "Streaming stopped, still connected",
                      currentListeners |-> 0])
         /\ MediaAnswered("stream_stop", EmptyBody,
                          StreamOk("streaming_stop", "connected"))
         /\ UNCHANGED <<audioSystemState, talkoverBase, videoState>>
    ELSE /\ MediaAnswered("stream_stop", EmptyBody,
                          Spread(BadRequest("Not currently streaming"),
                                 [action |-> "streaming_stop"]))
         /\ UNCHANGED media

\* the bytes one statistics update may add (1024 .. 3071): the ends of the range
ByteChunks == {1024, 3071}
\* the statistics timer is followed until this many bytes were sent
MaxBytes == 4096
\* Math.floor(Math.random() * 3) - 1, or no change at all
ListenerChanges == {-1, 0, 1}

Clamp(x, lo, hi) == IF x < lo THEN lo ELSE IF x > hi THEN hi ELSE x

\* function updateStreamStats(), run by setInterval(updateStreamStats, 2000)
updateStreamStats ==
    /\ IF streamState.status = "streaming"
       THEN \E chunk \in ByteChunks, change \in ListenerChanges :
               /\ streamState.bytesSent + chunk <= MaxBytes
               /\ streamState' =
                    Spread(streamState,
                           [bytesSent |-> streamState.bytesSent + chunk,
                            currentListeners |->
                                Clamp(streamState.currentListeners + change, 0, 100),
                            connectedTime |->
                                IF streamState.startTime # Null
                                THEN now - streamState.startTime[1]
                                ELSE streamState.connectedTime])
       ELSE UNCHANGED streamState
    /\ MediaAnswered("update_stream_stats", EmptyBody, NoResponse)
    /\ UNCHANGED <<audioSystemState, talkoverBase, videoState>>

-----------------------------------------------------------------------------
(* Microphone, talkover and master volume handlers *)

\* Math.max(0, Math.min(100, x))
Percent(x) == Clamp(x, 0, 100)

\* const { key = default } = req.body
Default(body, key, default) == IF Has(body, key) THEN body[key] ELSE default

\* talkover.active goes from false to true: remember the master volume
BaseAfter(audio) ==
    IF ~audioSystemState.talkover.active /\ audio.talkover.active
    THEN <<audioSystemState.master.volume>>
    ELSE talkoverBase

\* the audio system state becomes audio and res is answered
AudioAnswered(name, body, audio, res) ==
    /\ audioSystemState' = audio
    /\ talkoverBase' = BaseAfter(audio)
    /\ MediaAnswered(name, body, res)
    /\ UNCHANGED <<streamState, videoState>>

\* the bodies of microphone start (gain is clamped to 0..100)
MicrophoneBodies == {EmptyBody, [gain |-> 120, device_id |-> <<1>>]}

\* app.post('/api/audio/microphone/start')
HttpMicrophoneStart(body) ==
    LET microphone ==
            Spread(audioSystemState.microphone,
                   [enabled |-> TRUE,
                    gain |-> Percent(Default(body, "gain", 70)),
                    device_id |-> Default(body, "device_id", Null)])
        talkover ==
            IF audioSystemState.talkover.auto_enable
            THEN Spread(audioSystemState.talkover,
                        [enabled |-> TRUE, active |-> TRUE,
                         original_volume |-> <<audioSystemState.master.volume>>])
            ELSE audioSystemState.talkover
    IN  AudioAnswered("microphone_start", body,
                      Spread(audioSystemState,
                             [microphone |-> microphone, talkover |-> talkover]),
                      Ok("microphone_start",
                         [microphone |-> microphone,
                          talkover_auto_enabled |-> audioSystemState.talkover.auto_enable]))

\* talkover switched off, the saved volume restored if there is one
TalkoverOff(audio) ==
    Spread(audio,
           [talkover |-> Spread(audio.talkover,
                                [enabled |-> FALSE, active |-> FALSE,
                                 original_volume |-> Null]),
            master |-> IF audio.talkover.original_volume # Null
                       THEN Spread(audio.master,
                                   [volume |-> audio.talkover.original_volume[1]])
                       ELSE audio.master])

\* faulty variant: the microphone stops and talkover stays as it is
HttpMicrophoneStopKeepingTalkover ==
    LET microphone == Spread(audioSystemState.microphone, [enabled |-> FALSE])
    IN  AudioAnswered("microphone_stop", EmptyBody,
                      Spread(audioSystemState, [microphone |-> microphone]),
                      Ok("microphone_stop",
                         [microphone |-> microphone, talkover_disabled |-> TRUE]))

\* app.post('/api/audio/microphone/stop')
HttpMicrophoneStop ==
    LET microphone == Spread(audioSystemState.microphone, [enabled |-> FALSE])
        stopped == Spread(audioSystemState, [microphone |-> microphone])
    IN  AudioAnswered("microphone_stop", EmptyBody,
                      IF audioSystemState.talkover.enabled
                      THEN TalkoverOff(stopped)
                      ELSE stopped,
                      Ok("microphone_stop",
                         [microphone |-> microphone, talkover_disabled |-> TRUE]))

\* the bodies of talkover enable (duck_level is clamped, fade_time in tenths)
TalkoverBodies == {EmptyBody, [duck_level |-> 150, fade_time |-> 2]}

\* app.post('/api/audio/talkover/enable')
HttpTalkoverEnable(body) ==
    IF ~audioSystemState.microphone.enabled
    THEN /\ MediaAnswered("talkover_enable", body,
                          Spread(BadRequest("Cannot enable talkover - microphone is not enabled"),
                                 [action |-> "talkover_enable_failed"]))
         /\ UNCHANGED media
    ELSE LET talkover ==
                 Spread(audioSystemState.talkover,
                        [original_volume |->
                             IF audioSystemState.talkover.original_volume = Null
                             THEN <<audioSystemState.master.volume>>
                             ELSE audioSystemState.talkover.original_volume,
                         enabled |-> TRUE, active |-> TRUE,
                         duck_level |-> Percent(Default(body, "duck_level", 25)),
                         fade_time |-> IF Default(body, "fade_time", 1) < 0
                                       THEN 0 ELSE Default(body, "fade_time", 1)])
         IN  AudioAnswered("talkover_enable", body,
                           Spread(audioSystemState, [talkover |-> talkover]),
                           Ok("talkover_enabled", [talkover |-> talkover]))

\* app.post('/api/audio/talkover/disable')
HttpTalkoverDisable ==
    LET audio == TalkoverOff(audioSystemState)
    IN  AudioAnswered("talkover_disable", EmptyBody, audio,
                      Ok("talkover_disabled",
                         [talkover |-> audio.talkover,
                          master_volume |-> audio.master.volume]))

\* the bodies of master volume: in range, out of range, no volume
VolumeBodies == {[volume |-> 50], [volume |-> 90], [volume |-> 101], EmptyBody}

\* app.post('/api/audio/master/volume')
HttpMasterVolume(body) ==
    IF ~Has(body, "volume") \/ body.volume < 0 \/ body.volume > 100
    THEN /\ MediaAnswered("master_volume", body,
                          BadRequest("Volume must be a number between 0 and 100"))
         /\ UNCHANGED media
    ELSE LET master == Spread(audioSystemState.master, [volume |-> body.volume])
             talkover ==
                 IF ~audioSystemState.talkover.active
                 THEN Spread(audioSystemState.talkover,
                             [original_volume |-> <<body.volume>>])
                 ELSE audioSystemState.talkover
         IN  AudioAnswered("master_volume", body,
                           Spread(audioSystemState,
                                  [master |-> master, talkover |-> talkover]),
                           Ok("master_volume_set", [master |-> master]))

-----------------------------------------------------------------------------
(* Video streaming handlers and the routes under /api/video/stream *)

\* function getPlatformRtmpUrl(platform)
getPlatformRtmpUrl(platform) ==
    CASE platform = "youtube" -> "rtmp://a.rtmp.youtube.com/live2"
      [] platform = "twitch" -> "rtmp://live.twitch.tv/app"
      [] platform = "facebook" -> "rtmps://live-api-s.facebook.com:443/rtmp"
      [] platform = "tiktok" -> "rtmp://push.live.tiktok.com/live"
      [] platform = "instagram" -> "rtmp://live-upload.instagram.com/rtmp"
      [] OTHER -> ""

\* the video streaming state becomes streaming and res is answered
VideoAnswered(request, streaming, res) ==
    /\ videoState' = Spread(videoState, [streaming |-> streaming])
    /\ MediaAnswered("video_stream_post", request, res)
    /\ UNCHANGED <<streamState, audioSystemState, talkoverBase>>

\* app.post('/api/video/stream/:platform') handler
ConfigurePlatform(request) ==
    LET platform == request.segment
        body == request.body
    IN  IF MissingString(body, "stream_key")
        THEN /\ MediaAnswered("video_stream_post", request,
                              BadRequest("stream_key is required"))
             /\ UNCHANGED media
        ELSE LET configuration ==
                     [configured |-> TRUE, streaming |-> FALSE,
                      stream_key |-> body.stream_key,
                      title |-> OrElse(body, "title", "OneStopRadio Live on " \o platform),
                      description |-> OrElse(body, "description", ""),
                      rtmp_url |-> OrElse(body, "rtmp_url", getPlatformRtmpUrl(platform)),
                      stats |-> [start_time |-> Null]]
             IN  VideoAnswered(request,
                               Spread(videoState.streaming,
                                      [platforms |-> MapSet(videoState.streaming.platforms,
                                                            platform, configuration)]),
                               Ok("platform_configured",
                                  [platform |-> platform,
                                   configuration |-> configuration]))

\* the entries of list that are configured keys of map, in order
Configured(map, list) ==
    SelectSeq(list, LAMBDA k : k \in DOMAIN map /\ map[k].configured)

\* the entries of list that are keys of map, in order
Known(map, list) == SelectSeq(list, LAMBDA k : k \in DOMAIN map)

SeqRange(list) == {list[i] : i \in DOMAIN list}

\* map with streaming set to flag (and start_time to stamp) for the keys in names
Marked(map, names, flag, stamp) ==
    [k \in DOMAIN map |->
        IF k \in names
        THEN Spread(map[k], [streaming |-> flag,
                             stats |-> Spread(map[k].stats, [start_time |-> stamp])])
        ELSE map[k]]

\* map with streaming set to false for the keys in names
Unmarked(map, names) ==
    [k \in DOMAIN map |->
        IF k \in names THEN Spread(map[k], [streaming |-> FALSE]) ELSE map[k]]

\* app.post('/api/video/stream/start') handler
StartStreaming(request) ==
    LET body == request.body
        platforms == Default(body, "platforms", <<>>)
        rtmp_streams == Default(body, "rtmp_streams", <<>>)
        streaming == videoState.streaming
        started_platforms == Configured(streaming.platforms, platforms)
        started_rtmp == Configured(streaming.custom_rtmp, rtmp_streams)
        marked == Spread(streaming,
                         [platforms |-> Marked(streaming.platforms,
                                               SeqRange(started_platforms), TRUE, <<now>>),
                          custom_rtmp |-> Marked(streaming.custom_rtmp,
                                                 SeqRange(started_rtmp), TRUE, <<now>>)])
        after == IF Len(started_platforms) > 0 \/ Len(started_rtmp) > 0
                 THEN Spread(marked, [is_live |-> TRUE, start_time |-> <<now>>])
                 ELSE marked
    IN  IF Len(platforms) = 0 /\ Len(rtmp_streams) = 0
        THEN /\ MediaAnswered("video_stream_post", request,
                              BadRequest("At least one platform or RTMP stream must be specified"))
             /\ UNCHANGED media
        ELSE VideoAnswered(request, after,
                           Ok("streaming_started",
                              [is_live |-> after.is_live,
                               started_platforms |-> started_platforms,
                               started_rtmp |-> started_rtmp,
                               total_streams |-> Len(started_platforms) + Len(started_rtmp)]))

\* app.post('/api/video/stream/stop') handler
StopStreaming(request) ==
    LET body == request.body
        platforms == Default(body, "platforms", <<>>)
        rtmp_streams == Default(body, "rtmp_streams", <<>>)
        streaming == videoState.streaming
        stopped_platforms == Known(streaming.platforms, platforms)
        stopped_rtmp == Known(streaming.custom_rtmp, rtmp_streams)
        all == Spread(streaming,
                      [platforms |-> Unmarked(streaming.platforms,
                                              DOMAIN streaming.platforms),
                       custom_rtmp |-> Unmarked(streaming.custom_rtmp,
                                                DOMAIN streaming.custom_rtmp),
                       is_live |-> FALSE])
        some == Spread(streaming,
                       [platforms |-> Unmarked(streaming.platforms,
                                               SeqRange(stopped_platforms)),
                        custom_rtmp |-> Unmarked(streaming.custom_rtmp,
                                                 SeqRange(stopped_rtmp))])
        active == \/ \E p \in DOMAIN some.platforms : some.platforms[p].streaming
                  \/ \E r \in DOMAIN some.custom_rtmp : some.custom_rtmp[r].streaming
        after == IF active THEN some ELSE Spread(some, [is_live |-> FALSE])
    IN  IF Len(platforms) = 0 /\ Len(rtmp_streams) = 0
        THEN VideoAnswered(request, all,
                           Ok("all_streaming_stopped", [is_live |-> FALSE]))
        ELSE VideoAnswered(request, after,
                           Ok("streaming_stopped",
                              [is_live |-> after.is_live,
                               stopped_platforms |-> stopped_platforms,
                               stopped_rtmp |-> stopped_rtmp]))

\* the POST routes under /api/video/stream/, in the order of their app.post calls
VideoStreamRoutes ==
    <<[path |-> ":platform", handler |-> "configure"],
      [path |-> "start", handler |-> "start"],
      [path |-> "stop", handler |-> "stop"]>>

\* a route path matches the last segment of the request path
RouteMatches(path, segment) == path = ":platform" \/ path = segment

\* the router runs the first registered route that matches
FirstRoute(routes, segment) ==
    LET i == CHOOSE i \in DOMAIN routes :
                 /\ RouteMatches(routes[i].path, segment)
                 /\ \A j \in 1..(i - 1) : ~RouteMatches(routes[j].path, segment)
    IN  routes[i].handler

\* POST /api/video/stream/<segment>: none of the handlers calls next()
HttpVideoStreamPost(segment, body) ==
    LET request == [segment |-> segment, body |-> body]
        handler == FirstRoute(VideoStreamRoutes, segment)
    IN  CASE handler = "configure" -> ConfigurePlatform(request)
          [] handler = "start" -> StartStreaming(request)
          [] handler = "stop" -> StopStreaming(request)

\* the last path segments requested and the bodies posted
VideoSegments == {"youtube", "twitch", "start", "stop"}
VideoBodies ==
    {[stream_key |-> "live-key"],
     [platforms |-> <<"youtube">>],
     [platforms |-> <<"youtube", "twitch">>, stream_key |-> "live-key"],
     EmptyBody}

-----------------------------------------------------------------------------

(* Specifications *)

NamedBodies == {[session_name |-> "set"]}
CoreMixerPayloads == {[crossfader |-> 5]}

\* Spec: the session lifecycle.  Sessions are created, fed audio levels over
\* HTTP and ended while one connection opens, joins them and closes.
Next ==
    \/ Tick
    \/ \E body \in NamedBodies : HttpCreateSession(body)
    \/ \E sid \in SessionIds : HttpDeleteSession(sid)
    \/ \E sid \in SessionIds, body \in AudioPayloads : HttpAudioLevels(sid, body)
    \/ WsConnect("c1")
    \/ \E sid \in SessionIds : WsJoinSession("c1", sid)
    \/ WsClose("c1")

Spec == Init /\ [][Next]_vars

\* SpecClose: the subscriber registry.  Two connections open, join and
\* re-join the sessions and close while sessions are created and ended.
CoreConns == {"c1", "c2"}

CloseNext ==
    \/ Tick
    \/ \E body \in NamedBodies : HttpCreateSession(body)
    \/ \E sid \in SessionIds : HttpDeleteSession(sid)
    \/ \E c \in CoreConns : WsConnect(c)
    \/ \E c \in CoreConns, sid \in SessionIds : WsJoinSession(c, sid)
    \/ \E c \in CoreConns : WsClose(c)

SpecClose == Init /\ [][CloseNext]_vars

\* SpecFanout: the publish/subscribe fan-out.  Three connections open, join
\* and re-join the sessions while sessions are created; the connections being
\* interchangeable, the mixer updates are those of c1.
FanoutNext ==
    \/ Tick
    \/ \E body \in NamedBodies : HttpCreateSession(body)
    \/ \E c \in Conns : WsConnect(c)
    \/ \E c \in Conns, sid \in SessionIds : WsJoinSession(c, sid)
    \/ \E data \in CoreMixerPayloads : WsMixerUpdate("c1", data)

SpecFanout == Init /\ [][FanoutNext]_vars

\* SpecRejoin: one connection joins and re-joins the sessions and sends every
\* kind of update, while the sessions' mixers are also set over HTTP.
RejoinNext ==
    \/ Tick
    \/ \E body \in NamedBodies : HttpCreateSession(body)
    \/ \E sid \in SessionIds, body \in CoreMixerPayloads : HttpMixer(sid, body)
    \/ WsConnect("c1")
    \/ \E sid \in SessionIds : WsJoinSession("c1", sid)
    \/ \E data \in AudioPayloads : WsAudioLevels("c1", data)
    \/ \E data \in CoreMixerPayloads : WsMixerUpdate("c1", data)
    \/ \E data \in DeckPayloads : WsDeckUpdate("c1", "A", data)

SpecRejoin == Init /\ [][RejoinNext]_vars

\* SpecDeck: the decks and the mixer of one session.  Tracks are loaded and
\* playback commands sent over HTTP to the session created at time 0, whose
\* mixer is set over HTTP and by a connection that joined it.
DeckSession == SessionIdAt(0)
TrackBodies == {[track_title |-> "Song", bpm |-> 120]}
PlaybackBodies == {[action |-> "play"], [action |-> "pause"]}

DeckNext ==
    \/ Tick
    \/ \E body \in NamedBodies : HttpCreateSession(body)
    \/ \E deck \in {"A", "B"}, body \in TrackBodies :
           HttpLoadTrack(DeckSession, deck, body)
    \/ \E deck \in {"A", "B"}, body \in PlaybackBodies :
           HttpPlayback(DeckSession, deck, body)
    \/ \E body \in MixerPayloads : HttpMixer(DeckSession, body)
    \/ WsConnect("c1")
    \/ WsJoinSession("c1", DeckSession)
    \/ \E data \in MixerPayloads : WsMixerUpdate("c1", data)

SpecDeck == Init /\ [][DeckNext]_vars

\* SpecSync: every mutating command of one session, from both ingress paths.
\* Connection c1 opens and joins the session created at time 0 while it is
\* patched, loaded, played, mixed, metered and ended over HTTP and updated by
\* c1 over its WebSocket.
PatchBodies == {[is_live |-> TRUE, mood |-> "calm"]}
BpmBodies == {[bpm |-> 128, beat_position |-> 2]}
HttpMixerPayloads == {[master_volume |-> 9]}

SyncNext ==
    \/ Tick
    \/ \E body \in NamedBodies : HttpCreateSession(body)
    \/ \E body \in PatchBodies : HttpPatchSession(DeckSession, body)
    \/ \E body \in TrackBodies : HttpLoadTrack(DeckSession, "A", body)
    \/ HttpPlayback(DeckSession, "A", [action |-> "play"])
    \/ \E body \in HttpMixerPayloads : HttpMixer(DeckSession, body)
    \/ \E body \in AudioPayloads : HttpAudioLevels(DeckSession, body)
    \/ \E body \in BpmBodies : HttpBpm(DeckSession, "A", body)
    \/ HttpDeleteSession(DeckSession)
    \/ WsConnect("c1")
    \/ WsJoinSession("c1", DeckSession)
    \/ \E data \in AudioPayloads : WsAudioLevels("c1", data)
    \/ \E data \in CoreMixerPayloads : WsMixerUpdate("c1", data)
    \/ \E data \in DeckPayloads : WsDeckUpdate("c1", "B", data)

SpecSync == Init /\ [][SyncNext]_vars

\* SpecOrder: one session's event stream seen by two subscribers.  Two
\* connections open and join the session created at time 0, whose mixer and
\* audio levels are set over HTTP and by both connections.
OrderNext ==
    \/ Tick
    \/ \E body \in NamedBodies : HttpCreateSession(body)
    \/ \E body \in HttpMixerPayloads : HttpMixer(DeckSession, body)
    \/ \E body \in AudioPayloads : HttpAudioLevels(DeckSession, body)
    \/ \E c \in CoreConns : WsConnect(c)
    \/ \E c \in CoreConns : WsJoinSession(c, DeckSession)
    \/ \E c \in CoreConns, data \in CoreMixerPayloads : WsMixerUpdate(c, data)
    \/ \E c \in CoreConns, data \in AudioPayloads : WsAudioLevels(c, data)

SpecOrder == Init /\ [][OrderNext]_vars

\* SpecView: the decks of one session as its subscriber sees them.  Connection
\* c1 opens, joins the session created at time 0 and sends deck updates under
\* every deck label while tracks are loaded, played and their tempo set over
\* HTTP.
ViewNext ==
    \/ Tick
    \/ \E body \in NamedBodies : HttpCreateSession(body)
    \/ \E body \in TrackBodies : HttpLoadTrack(DeckSession, "A", body)
    \/ HttpPlayback(DeckSession, "A", [action |-> "play"])
    \/ \E body \in BpmBodies : HttpBpm(DeckSession, "A", body)
    \/ WsConnect("c1")
    \/ WsJoinSession("c1", DeckSession)
    \/ \E deck \in DeckLabels, data \in DeckPayloads : WsDeckUpdate("c1", deck, data)

SpecView == Init /\ [][ViewNext]_vars

\* SpecHttp: every session-scoped HTTP operation, before the session of time
\* 0 is created, while it is stored and after it is ended, with valid and
\* invalid deck labels and actions; connection c1 opens and joins it.
HttpDecks == {"A", "C"}
HttpPlaybackBodies == {[action |-> "play"], [action |-> "spin"]}

HttpNext ==
    \/ Tick
    \/ \E body \in NamedBodies : HttpCreateSession(body)
    \/ HttpGetSession(DeckSession)
    \/ \E body \in PatchBodies : HttpPatchSession(DeckSession, body)
    \/ HttpDeleteSession(DeckSession)
    \/ \E deck \in HttpDecks, body \in TrackBodies :
           HttpLoadTrack(DeckSession, deck, body)
    \/ \E deck \in HttpDecks, body \in HttpPlaybackBodies :
           HttpPlayback(DeckSession, deck, body)
    \/ HttpGetMixer(DeckSession)
    \/ \E body \in HttpMixerPayloads : HttpMixer(DeckSession, body)
    \/ HttpStats(DeckSession)
    \/ \E body \in AudioPayloads : HttpAudioLevels(DeckSession, body)
    \/ \E deck \in HttpDecks, body \in BpmBodies : HttpBpm(DeckSession, deck, body)
    \/ WsConnect("c1")
    \/ WsJoinSession("c1", DeckSession)

SpecHttp == Init /\ [][HttpNext]_vars

\* SpecPlayback: every playback action on both decks of the session created
\* at time 0, with and without a loaded track; connection c1 opens and joins
\* the session.
AllPlaybackBodies ==
    {[action |-> "play"], [action |-> "pause"], [action |-> "stop"],
     [action |-> "cue"], [action |-> "cue", position |-> 30],
     [action |-> "sync"]}

PlaybackNext ==
    \/ Tick
    \/ \E body \in NamedBodies : HttpCreateSession(body)
    \/ \E deck \in {"A", "B"}, body \in TrackBodies :
           HttpLoadTrack(DeckSession, deck, body)
    \/ \E deck \in {"A", "B"}, body \in AllPlaybackBodies :
           HttpPlayback(DeckSession, deck, body)
    \/ WsConnect("c1")
    \/ WsJoinSession("c1", DeckSession)

SpecPlayback == Init /\ [][PlaybackNext]_vars

\* SpecLoad: tracks are loaded, with and without a tempo, onto both decks of
\* the session created at time 0 while the decks are played and the mixer is
\* set; connection c1 opens and joins the session.
LoadBodies == TrackBodies \cup {[track_id |-> "t2"]}

LoadNext ==
    \/ Tick
    \/ \E body \in NamedBodies : HttpCreateSession(body)
    \/ \E deck \in {"A", "B"}, body \in LoadBodies :
           HttpLoadTrack(DeckSession, deck, body)
    \/ \E deck \in {"A", "B"} : HttpPlayback(DeckSession, deck, [action |-> "play"])
    \/ \E body \in HttpMixerPayloads : HttpMixer(DeckSession, body)
    \/ WsConnect("c1")
    \/ WsJoinSession("c1", DeckSession)

SpecLoad == Init /\ [][LoadNext]_vars

\* SpecPatch: the top-level fields of one session.  The session created at
\* time 0 is patched with bodies that carry a timestamp of their own, an id
\* and a flag, read, ended and created again, while its mixer is set over HTTP
\* and by connection c1, which joined it.
PastStamp == -1
FieldBodies ==
    {[updated_at |-> PastStamp], [id |-> "dj_session_x"], [is_live |-> TRUE]}

PatchNext ==
    \/ Tick
    \/ \E body \in NamedBodies : HttpCreateSession(body)
    \/ HttpGetSession(DeckSession)
    \/ \E body \in FieldBodies : HttpPatchSession(DeckSession, body)
    \/ \E body \in HttpMixerPayloads : HttpMixer(DeckSession, body)
    \/ HttpDeleteSession(DeckSession)
    \/ WsConnect("c1")
    \/ WsJoinSession("c1", DeckSession)
    \/ \E data \in CoreMixerPayloads : WsMixerUpdate("c1", data)

SpecPatch == Init /\ [][PatchNext]_vars

\* SpecEnd: the end of a session.  Two connections open and join the session
\* created at time 0, which is read, has its mixer set over HTTP and by c1, is
\* ended and may be created again.
EndNext ==
    \/ Tick
    \/ \E body \in NamedBodies : HttpCreateSession(body)
    \/ HttpGetSession(DeckSession)
    \/ \E body \in HttpMixerPayloads : HttpMixer(DeckSession, body)
    \/ HttpDeleteSession(DeckSession)
    \/ \E c \in CoreConns : WsConnect(c)
    \/ \E c \in CoreConns : WsJoinSession(c, DeckSession)
    \/ \E data \in CoreMixerPayloads : WsMixerUpdate("c1", data)

SpecEnd == Init /\ [][EndNext]_vars

\* SpecGateway: the messages of a connection in each of its states.  Two
\* connections open, join the session created at time 0 and close; they send
\* heartbeats and messages of no known type, c1 sends every kind of update,
\* and the session's mixer is set over HTTP.
GatewayNext ==
    \/ Tick
    \/ \E body \in NamedBodies : HttpCreateSession(body)
    \/ \E body \in HttpMixerPayloads : HttpMixer(DeckSession, body)
    \/ \E c \in CoreConns : WsConnect(c)
    \/ \E c \in CoreConns : WsJoinSession(c, DeckSession)
    \/ \E data \in AudioPayloads : WsAudioLevels("c1", data)
    \/ \E data \in CoreMixerPayloads : WsMixerUpdate("c1", data)
    \/ \E data \in DeckPayloads : WsDeckUpdate("c1", "A", data)
    \/ \E c \in CoreConns : WsHeartbeat(c)
    \/ \E c \in CoreConns : WsUnknown(c)
    \/ \E c \in CoreConns : WsClose(c)

SpecGateway == Init /\ [][GatewayNext]_vars

\* SpecDead: subscribers whose socket is no longer open.  Three connections
\* open and join the session created at time 0; a socket may stop being open
\* before its close event is handled, and stays in the subscriber set until
\* then.  The session's mixer is set over HTTP and by c1.
DeadNext ==
    \/ Tick
    \/ \E body \in NamedBodies : HttpCreateSession(body)
    \/ \E body \in HttpMixerPayloads : HttpMixer(DeckSession, body)
    \/ \E c \in Conns : WsConnect(c)
    \/ \E c \in Conns : WsJoinSession(c, DeckSession)
    \/ \E data \in CoreMixerPayloads : WsMixerUpdate("c1", data)
    \/ \E c \in Conns : WsClosing(c)
    \/ \E c \in Conns : WsClose(c)

SpecDead == Init /\ [][DeadNext]_vars

\* SpecCreate: the creation of sessions.  Sessions are created with and
\* without a name, have their mixer set and are ended, while connection c1
\* opens and joins them.
AllCreateBodies ==
    CreateBodies \cup {[session_name |-> ""],
                       [session_name |-> "b2b", dj_id |-> "dj-7"]}

CreateNext ==
    \/ Tick
    \/ \E body \in AllCreateBodies : HttpCreateSession(body)
    \/ \E sid \in SessionIds, body \in HttpMixerPayloads : HttpMixer(sid, body)
    \/ \E sid \in SessionIds : HttpDeleteSession(sid)
    \/ WsConnect("c1")
    \/ \E sid \in SessionIds : WsJoinSession("c1", sid)

SpecCreate == Init /\ [][CreateNext]_vars

\* SpecRegistry: the entries of the subscriber registry.  Two connections
\* open, join and re-join the first two session ids, or send a join_session
\* without session_id, and close, while sessions are created and ended.
RegistryIds == {SessionIdAt(0), SessionIdAt(1), UndefinedId}

RegistryNext ==
    \/ Tick
    \/ \E body \in NamedBodies : HttpCreateSession(body)
    \/ HttpDeleteSession(DeckSession)
    \/ \E c \in CoreConns : WsConnect(c)
    \/ \E c \in CoreConns, sid \in RegistryIds : WsJoinSession(c, sid)
    \/ \E c \in CoreConns : WsClose(c)

SpecRegistry == Init /\ [][RegistryNext]_vars

\* SpecDeckUpdate: deck updates over the WebSocket.  Connection c1 opens,
\* joins the session created at time 0 and sends deck updates under every
\* deck label, with a volume or a playing flag, while a track is loaded and
\* played on deck A over HTTP.
DeckStatePayloads == DeckPayloads \cup {[playing |-> TRUE]}

DeckUpdateNext ==
    \/ Tick
    \/ \E body \in NamedBodies : HttpCreateSession(body)
    \/ \E body \in TrackBodies : HttpLoadTrack(DeckSession, "A", body)
    \/ HttpPlayback(DeckSession, "A", [action |-> "play"])
    \/ WsConnect("c1")
    \/ WsJoinSession("c1", DeckSession)
    \/ \E deck \in DeckLabels, data \in DeckStatePayloads :
           WsDeckUpdate("c1", deck, data)

SpecDeckUpdate == Init /\ [][DeckUpdateNext]_vars

\* the audio stream handlers and the statistics timer
StreamNext ==
    \/ Tick
    \/ \E config \in StreamConfigs : HttpStreamConnect(config)
    \/ HttpStreamDisconnect
    \/ HttpStreamStart
    \/ HttpStreamStop
    \/ updateStreamStats

SpecStream == Init /\ [][StreamNext]_vars

\* the microphone, talkover and master volume handlers
AudioNext ==
    \/ Tick
    \/ \E body \in MicrophoneBodies : HttpMicrophoneStart(body)
    \/ HttpMicrophoneStop
    \/ \E body \in TalkoverBodies : HttpTalkoverEnable(body)
    \/ HttpTalkoverDisable
    \/ \E body \in VolumeBodies : HttpMasterVolume(body)

SpecAudio == Init /\ [][AudioNext]_vars

\* the requests POST /api/video/stream/<segment>
VideoNext ==
    \/ Tick
    \/ \E segment \in VideoSegments, body \in VideoBodies :
          HttpVideoStreamPost(segment, body)

SpecVideo == Init /\ [][VideoNext]_vars

-----------------------------------------------------------------------------
(* Properties *)

\* the connections that received something from the last handler
Receivers == {c \in Conns : sent[c] # <<>>}

\* C1 (SpecFanout): a mixer_update applied to session S is delivered, as one
\* mixer_updated event carrying S's resulting mixer (which holds the fields
\* the update supplied), to exactly the open connections that joined S; a
\* connection that joined only another session receives nothing.
C1_FanOut ==
    (lastOp.op = "ws_mixer_update" /\ bcast # NoBroadcast) =>
        LET sid == lastOp.sid
            event == [type |-> "mixer_updated", data |-> djSessions[sid].mixer]
        IN  /\ \A k \in DOMAIN lastOp.arg : djSessions[sid].mixer[k] = lastOp.arg[k]
            /\ \A c \in Conns :
                  sent[c] = IF sid \in MemberOf(djConnections, c)
                               /\ readyState[c] = "OPEN"
                            THEN <<event>> ELSE <<>>

\* c1 and c2 joined S, c3 joined only S2; c1's mixer_update reached c1 and c2
C1_FanOutWitness ==
    /\ lastOp.op = "ws_mixer_update"
    /\ lastOp.conn = "c1"
    /\ Cardinality(DOMAIN djSessions) = 2
    /\ MemberOf(djConnections, "c1") = {lastOp.sid}
    /\ MemberOf(djConnections, "c2") = {lastOp.sid}
    /\ Cardinality(MemberOf(djConnections, "c3")) = 1
    /\ lastOp.sid \notin MemberOf(djConnections, "c3")
    /\ Receivers = {"c1", "c2"}
    /\ sent["c1"][1].data.crossfader = 5

\* C2 (SpecFanout): a join_session naming an existing session sends the
\* joining connection exactly one session_state message holding the stored
\* session; no other connection receives anything and nothing is broadcast.
C2_JoinReflectsState ==
    (lastOp.op = "ws_join_session" /\ lastOp.sid \in DOMAIN djSessions) =>
        /\ sent[lastOp.conn] =
              <<[type |-> "session_state", data |-> djSessions[lastOp.sid]]>>
        /\ Receivers = {lastOp.conn}
        /\ bcast = NoBroadcast

\* c2 joins the just created session, to which c1 is already subscribed, and
\* receives the creation defaults
C2_JoinWitness ==
    /\ lastOp.op = "ws_join_session"
    /\ lastOp.conn = "c2"
    /\ lastOp.sid \in MemberOf(djConnections, "c1")
    /\ readyState["c1"] = "OPEN"
    /\ sent["c2"] = <<[type |-> "session_state",
                       data |-> createDJSession(SessionIdAt(0), "demo-dj", "set", 0)]>>

\* C9 as claimed: every connection is a member of at most one subscriber set.
C9_SingleMembership ==
    \A c \in Conns : Cardinality(MemberOf(djConnections, c)) <= 1

\* C9 as amended (Spec): a join_session binds the connection to the named
\* session and adds it to that session's subscriber set; no step adds a
\* connection to any other set, and a join removes it from none.  So a
\* connection is a member of at most as many sets as distinct ids it joined.
C9_MembershipByJoin ==
    [][\A c \in Conns :
         IF lastOp'.op = "ws_join_session" /\ lastOp'.conn = c
         THEN /\ wsSessionId'[c] = lastOp'.sid
              /\ MemberOf(djConnections', c) =
                    MemberOf(djConnections, c) \cup {lastOp'.sid}
         ELSE MemberOf(djConnections', c) \subseteq MemberOf(djConnections, c)
      ]_vars

\* a connection that joined two sessions is a member of both
C9_TwoMembershipsWitness ==
    \E c \in Conns :
       /\ lastOp.op = "ws_join_session"
       /\ lastOp.conn = c
       /\ Cardinality(MemberOf(djConnections, c)) = 2

\* C10 (SpecRejoin): a join_session from a connection that already joined
\* another session adds it to the new session's set and keeps it in the old
\* one; every broadcast to a session reaches each open member, whatever
\* session the member is bound to now; and an audio_levels, mixer_update or
\* deck_update message changes and broadcasts to the bound session only.
C10_RejoinKeepsSubscription ==
    [][/\ lastOp'.op = "ws_join_session" =>
             /\ wsSessionId'[lastOp'.conn] = lastOp'.sid
             /\ MemberOf(djConnections', lastOp'.conn) =
                   MemberOf(djConnections, lastOp'.conn) \cup {lastOp'.sid}
       /\ bcast' # NoBroadcast =>
             \A c \in Conns :
                (bcast'[1].sid \in MemberOf(djConnections, c)
                    /\ readyState[c] = "OPEN") => sent'[c] = <<bcast'[1].msg>>
       /\ lastOp'.op \in {"ws_audio_levels", "ws_mixer_update", "ws_deck_update"} =>
             /\ DOMAIN djSessions' = DOMAIN djSessions
             /\ \A s \in DOMAIN djSessions :
                   s # wsSessionId[lastOp'.conn] => djSessions'[s] = djSessions[s]
             /\ bcast' # NoBroadcast => bcast'[1].sid = wsSessionId[lastOp'.conn]
      ]_vars

\* c1, bound to a second session, receives the broadcast of an HTTP mixer
\* update of the session it joined first
C10_OldBroadcastWitness ==
    /\ lastOp.op = "http_mixer"
    /\ lastOp.sid \in DOMAIN djSessions
    /\ readyState["c1"] = "OPEN"
    /\ Truthy(wsSessionId["c1"])
    /\ wsSessionId["c1"] # lastOp.sid
    /\ wsSessionId["c1"] \in DOMAIN djSessions
    /\ sent["c1"] = <<[type |-> "mixer_updated", data |-> djSessions[lastOp.sid].mixer]>>

C4_NoBroadcastAfterDeletion ==
    /\ (lastOp.op = "http_delete" /\ response.status = 200) =>
          /\ lastOp.sid \notin DOMAIN djSessions
          /\ lastOp.sid \notin DOMAIN djConnections
    /\ (bcast # NoBroadcast /\ lastOp.op # "http_delete" /\ Receivers # {}) =>
          bcast[1].sid \notin ended

\* C6 (Spec): in every reachable registry, removing any connection from any
\* session a second time changes nothing, removing a connection that is not
\* subscribed changes nothing, and a removal keeps every other subscriber of
\* every session subscribed.
C6_IdempotentUnsubscribe ==
    \A s \in SessionIds, c \in Conns :
       LET once == removeConnectionFromSession(djConnections, s, c)
           twice == removeConnectionFromSession(once, s, c)
       IN  /\ twice = once
           /\ s \notin MemberOf(djConnections, c) => once = djConnections
           /\ \A c2 \in Conns \ {c} :
                 MemberOf(once, c2) = MemberOf(djConnections, c2)

\* a connection closed while it was not in the subscriber set of the session
\* it was bound to, and another connection is subscribed to that session
C6_NotSubscribedWitness ==
    /\ lastOp.op = "ws_close"
    /\ Truthy(lastOp.sid)
    /\ ~lastOp.arg.subscribed
    /\ lastOp.sid \in DOMAIN djConnections
    /\ djConnections[lastOp.sid] # {}

\* C8 as claimed: a create never returns an id that is in the store or that
\* an ended session had.
C8_UniqueSessionIds ==
    [][(lastOp'.op = "http_create" /\ response'.status = 200) =>
          lastOp'.sid \notin DOMAIN djSessions \cup ended]_vars

NoTrackLoaded == BadRequest("No track loaded on this deck")

\* C5 (SpecDeck): a 'play' command for a deck of an existing session that
\* holds no track answers 400 "No track loaded on this deck", changes no
\* session and sends nothing; a successful loadTrack leaves a track on the
\* deck; and 'play' for a deck that holds a track answers 200 and leaves the
\* deck playing.
C5_PlaybackPrecondition ==
    [][/\ (lastOp'.op = "http_playback" /\ lastOp'.arg.body.action = "play"
              /\ lastOp'.sid \in DOMAIN djSessions) =>
             LET key == DeckKey(lastOp'.arg.deck) IN
             IF djSessions[lastOp'.sid][key].track = Null
             THEN /\ response' = NoTrackLoaded
                  /\ djSessions' = djSessions
                  /\ bcast' = NoBroadcast
                  /\ Receivers' = {}
             ELSE /\ response'.status = 200
                  /\ djSessions'[lastOp'.sid][key].playing
       /\ (lastOp'.op = "http_load_track" /\ response'.status = 200) =>
             djSessions'[lastOp'.sid][DeckKey(lastOp'.arg.deck)].track # Null
      ]_vars

\* 'play' is refused on deck A, which holds no track, while deck B, loaded
\* before, is playing and a connection is subscribed to the session
C5_NoTrackWitness ==
    /\ lastOp.op = "http_playback"
    /\ lastOp.arg = [deck |-> "A", body |-> [action |-> "play"]]
    /\ response = NoTrackLoaded
    /\ djSessions[lastOp.sid].deck_a.track = Null
    /\ djSessions[lastOp.sid].deck_b.track # Null
    /\ djSessions[lastOp.sid].deck_b.playing
    /\ Recipients(djConnections, readyState, lastOp.sid) # {}

\* C7 (SpecDeck): an applied mixer update, over HTTP with any body or over
\* WebSocket with a payload of mixer fields only, sets the supplied mixer
\* fields, keeps every other mixer field and leaves both decks and the audio
\* levels of the session, and every other session, unchanged.
C7_MixerMerge ==
    [][((lastOp'.op = "http_mixer" /\ response'.status = 200)
          \/ (lastOp'.op = "ws_mixer_update" /\ bcast' # NoBroadcast
                 /\ DOMAIN lastOp'.arg \subseteq MixerFields)) =>
          LET old == djSessions[lastOp'.sid]
              new == djSessions'[lastOp'.sid]
              data == lastOp'.arg
          IN  /\ new.mixer = [k \in DOMAIN old.mixer |->
                                 IF k \in DOMAIN data THEN data[k] ELSE old.mixer[k]]
              /\ new.deck_a = old.deck_a
              /\ new.deck_b = old.deck_b
              /\ new.audio_levels = old.audio_levels
              /\ DOMAIN djSessions' = DOMAIN djSessions
              /\ \A s \in DOMAIN djSessions \ {lastOp'.sid} :
                    djSessions'[s] = djSessions[s]
      ]_vars

\* a WebSocket update of the crossfader alone, on a session whose master
\* volume was set before and whose deck A holds a track
C7_PartialUpdateWitness ==
    /\ lastOp.op = "ws_mixer_update"
    /\ lastOp.arg = [crossfader |-> 5]
    /\ bcast # NoBroadcast
    /\ djSessions[lastOp.sid].mixer.crossfader = 5
    /\ djSessions[lastOp.sid].mixer.master_volume = 9
    /\ djSessions[lastOp.sid].mixer.channel_a_volume = 8
    /\ djSessions[lastOp.sid].deck_a.track # Null

\* C11 as claimed (SpecClose): a connection whose channel closed is a member
\* of no session's subscriber set, whatever sessions it joined before.
C11_ClosedNotSubscribed ==
    \A c \in Conns : readyState[c] = "CLOSED" => MemberOf(djConnections, c) = {}

\* C12 (SpecOrder): a handler applies its command and hands the resulting
\* event to every open subscriber of the session before the next handler
\* runs, and a subscriber is handed at most one message per handler.  So of
\* two commands applied to a session one after the other, from HTTP or
\* WebSocket, every connection subscribed and open at both receives the
\* event of the first in the first handler and the event of the second in
\* the second: all subscribers see the events in the order of application.
C12_PerSessionOrder ==
    [][/\ \A c \in Conns : Len(sent'[c]) <= 1
       /\ bcast' # NoBroadcast =>
             \A c \in Recipients(djConnections, readyState, bcast'[1].sid) :
                sent'[c] = <<bcast'[1].msg>>
       /\ (bcast # NoBroadcast /\ bcast' # NoBroadcast
              /\ bcast[1].sid = bcast'[1].sid) =>
             \A c \in Recipients(djConnections, readyState, bcast[1].sid) :
                /\ sent[c] = <<bcast[1].msg>>
                /\ sent'[c] = <<bcast'[1].msg>>
      ]_vars

\* an HTTP mixer update of a session whose crossfader was set over WebSocket
\* before: c1 and c2 are handed the same event, which holds both changes
C12_TwoEventsWitness ==
    /\ lastOp.op = "http_mixer"
    /\ bcast # NoBroadcast
    /\ Receivers = {"c1", "c2"}
    /\ sent["c1"] = sent["c2"]
    /\ sent["c1"][1].data.crossfader = 5
    /\ sent["c1"][1].data.master_volume = 9

\* the event type each mutating command broadcasts
EventType ==
    [http_patch |-> "session_updated", http_load_track |-> "track_loaded",
     http_playback |-> "playback_control", http_mixer |-> "mixer_updated",
     http_audio_levels |-> "audio_levels", http_bpm |-> "bpm_updated",
     http_delete |-> "session_ended", ws_audio_levels |-> "audio_levels",
     ws_mixer_update |-> "mixer_updated", ws_deck_update |-> "deck_updated"]

HttpCommands ==
    {"http_patch", "http_load_track", "http_playback", "http_mixer",
     "http_audio_levels", "http_bpm", "http_delete"}
WsCommands == {"ws_audio_levels", "ws_mixer_update", "ws_deck_update"}

\* C13 (SpecSync): every mutating command that succeeds on an existing
\* session (an HTTP one answered 200, a WebSocket one from a connection bound
\* to the session) makes exactly one broadcast, of the command's event type,
\* to that session, handed once to each open subscriber of the session and to
\* nobody else; and no step changes a stored session without broadcasting to it.
C13_OneBroadcastPerMutation ==
    [][/\ ((lastOp'.op \in HttpCommands /\ response'.status = 200)
             \/ (lastOp'.op \in WsCommands /\ lastOp'.sid \in DOMAIN djSessions
                    /\ (lastOp'.op = "ws_deck_update" =>
                           lastOp'.arg.deck # UndefinedId))) =>
             /\ Len(bcast') = 1
             /\ bcast'[1].sid = lastOp'.sid
             /\ bcast'[1].msg.type = EventType[lastOp'.op]
             /\ \A c \in Conns :
                   sent'[c] = IF c \in Recipients(djConnections, readyState,
                                                  lastOp'.sid)
                              THEN <<bcast'[1].msg>> ELSE <<>>
       /\ \A s \in DOMAIN djSessions :
             (s \notin DOMAIN djSessions' \/ djSessions'[s] # djSessions[s]) =>
                (lastOp'.op = "http_create"
                    \/ (bcast' # NoBroadcast /\ bcast'[1].sid = s))
      ]_vars

\* an HTTP bpm update of deck A reaches the subscribed connection c1 as one
\* bpm_updated event
C13_HttpSeenWitness ==
    /\ lastOp.op = "http_bpm"
    /\ response.status = 200
    /\ sent["c1"] = <<[type |-> "bpm_updated", deck |-> "A",
                       data |-> [bpm |-> <<128>>, synced |-> FALSE,
                                 beat_position |-> 2]]>>

\* the part of a session a subscriber keeps a copy of
View(session) ==
    [deck_a |-> session.deck_a, deck_b |-> session.deck_b,
     mixer |-> session.mixer, audio_levels |-> session.audio_levels]

\* the subscriber applies one received event to its copy: a whole-session
\* event replaces the copy, a mixer or audio-levels event replaces that
\* sub-state, a deck event replaces (bpm_updated: is merged into) the deck the
\* event names, 'A' or 'B'; any other event leaves the copy as it is
ApplyEvent(view, ev) ==
    CASE ev.type \in {"session_state", "session_updated"} -> View(ev.data)
      [] ev.type = "mixer_updated" -> [view EXCEPT !.mixer = ev.data]
      [] ev.type = "audio_levels" -> [view EXCEPT !.audio_levels = ev.data]
      [] ev.type \in {"deck_updated", "track_loaded", "playback_control"} ->
            IF ev.deck = "A" THEN [view EXCEPT !.deck_a = ev.data]
            ELSE IF ev.deck = "B" THEN [view EXCEPT !.deck_b = ev.data]
            ELSE view
      [] ev.type = "bpm_updated" ->
            IF ev.deck = "A" THEN [view EXCEPT !.deck_a = Spread(@, ev.data)]
            ELSE IF ev.deck = "B" THEN [view EXCEPT !.deck_b = Spread(@, ev.data)]
            ELSE view
      [] OTHER -> view

\* the copy after the messages of one handler (at most one per connection)
ApplyAll(view, msgs) == IF msgs = <<>> THEN view ELSE ApplyEvent(view, msgs[1])

\* C14 as claimed (SpecView): the copy of a connection that joined S and stays
\* open follows the store.  A join of an existing session hands the
\* connection a session_state from which the copy equals the stored session,
\* and whenever the copy of a subscribed open connection equals the stored
\* session before a handler, applying what the handler sent the connection
\* makes it equal to the stored session after the handler.
C14_ViewSynchronized ==
    [][\A c \in Conns :
         /\ (lastOp'.op = "ws_join_session" /\ lastOp'.conn = c
                /\ lastOp'.sid \in DOMAIN djSessions') =>
               ApplyAll(View(djSessions'[lastOp'.sid]), sent'[c])
                  = View(djSessions'[lastOp'.sid])
         /\ \A s \in DOMAIN djSessions \cap DOMAIN djSessions' :
               (readyState[c] = "OPEN" /\ readyState'[c] = "OPEN"
                   /\ s \in MemberOf(djConnections, c)) =>
                  ApplyAll(View(djSessions[s]), sent'[c]) = View(djSessions'[s])
      ]_vars

\* C15 (SpecRejoin): an audio_levels, mixer_update or deck_update message
\* from a connection bound by join_session to an id that has no session in
\* the store changes no session and no subscriber set, broadcasts nothing
\* and sends nothing to any connection, the sender included.
C15_UnknownSessionSilent ==
    [][(lastOp'.op \in WsCommands
          /\ Truthy(wsSessionId[lastOp'.conn])
          /\ wsSessionId[lastOp'.conn] \notin DOMAIN djSessions) =>
          /\ djSessions' = djSessions
          /\ djConnections' = djConnections
          /\ bcast' = NoBroadcast
          /\ sent' = NoneSent
      ]_vars

\* a deck_update from c1, bound to and subscribed under an id that has no
\* session while another session is stored
C15_UnknownSessionWitness ==
    /\ lastOp.op = "ws_deck_update"
    /\ lastOp.conn = "c1"
    /\ Truthy(lastOp.sid)
    /\ lastOp.sid \notin DOMAIN djSessions
    /\ lastOp.sid \in MemberOf(djConnections, "c1")
    /\ djSessions # <<>>
    /\ sent = NoneSent

\* the session-scoped HTTP operations, and those that take a deck label
HttpScoped ==
    {"http_get", "http_patch", "http_delete", "http_load_track",
     "http_playback", "http_get_mixer", "http_mixer", "http_stats",
     "http_audio_levels", "http_bpm"}
HttpDeckScoped == {"http_load_track", "http_playback", "http_bpm"}

InvalidDeck == BadRequest("Deck must be \"A\" or \"B\"")
InvalidAction == BadRequest("Action must be one of: play, pause, stop, cue, sync")

\* the last request named a deck other than 'A' and 'B', or was a playback
\* request with an action outside the valid ones
FailsValidation(op) ==
    /\ op.op \in HttpDeckScoped
    /\ \/ ~ValidDeck(op.arg.deck)
       \/ /\ op.op = "http_playback"
          /\ ~(Has(op.arg.body, "action") /\ op.arg.body.action \in ValidActions)

\* C16 as claimed: a session-scoped HTTP operation on an id that is not in
\* the store answers 404 'DJ session not found' whatever its other
\* parameters are, changes nothing and broadcasts nothing.
C16_NotFoundAlways ==
    [][(lastOp'.op \in HttpScoped /\ lastOp'.sid \notin DOMAIN djSessions) =>
          /\ response' = NotFound
          /\ djSessions' = djSessions
          /\ djConnections' = djConnections
          /\ bcast' = NoBroadcast
          /\ sent' = NoneSent
      ]_vars

\* C16 as amended (SpecHttp): a session-scoped HTTP operation on an id that
\* is not in the store changes nothing and broadcasts nothing; it answers 404
\* 'DJ session not found' when its deck label and action are valid (or it has
\* none), and otherwise the 400 of the deck or action validation, which the
\* load-track, playback and bpm handlers run before they look the session up.
C16_NotFoundAfterValidation ==
    [][(lastOp'.op \in HttpScoped /\ lastOp'.sid \notin DOMAIN djSessions) =>
          /\ response' = IF ~FailsValidation(lastOp') THEN NotFound
                         ELSE IF ~ValidDeck(lastOp'.arg.deck) THEN InvalidDeck
                         ELSE InvalidAction
          /\ djSessions' = djSessions
          /\ djConnections' = djConnections
          /\ bcast' = NoBroadcast
          /\ sent' = NoneSent
      ]_vars

\* a bpm request with a valid deck for the ended session, to which c1 is
\* still bound: 404
C16_NotFoundWitness ==
    /\ lastOp.op = "http_bpm"
    /\ lastOp.arg.deck = "A"
    /\ lastOp.sid \in ended
    /\ lastOp.sid \notin DOMAIN djSessions
    /\ response = NotFound
    /\ readyState["c1"] = "OPEN"
    /\ wsSessionId["c1"] = lastOp.sid

\* the last request was a playback request with a valid deck and action for a
\* session in the store `sessions`
PlaybackOn(op, sessions) ==
    /\ op.op = "http_playback"
    /\ op.sid \in DOMAIN sessions
    /\ ValidDeck(op.arg.deck)
    /\ Has(op.arg.body, "action")
    /\ op.arg.body.action \in ValidActions

\* C17 as claimed (SpecPlayback): on a deck with no track, play, pause and
\* cue answer 400 'No track loaded on this deck' and change nothing, whereas
\* stop is applied (playing false, position 0) and sync is applied (synced
\* toggled), both answering 200 and broadcasting.
C17_NoTrackOnlyPlayPauseCue ==
    [][(PlaybackOn(lastOp', djSessions)
          /\ djSessions[lastOp'.sid][DeckKey(lastOp'.arg.deck)].track = Null) =>
          LET key == DeckKey(lastOp'.arg.deck)
              action == lastOp'.arg.body.action
              old == djSessions[lastOp'.sid][key]
          IN  IF action \in {"play", "pause", "cue"}
              THEN /\ response' = NoTrackLoaded
                   /\ djSessions' = djSessions
                   /\ bcast' = NoBroadcast
              ELSE /\ response'.status = 200
                   /\ bcast' # NoBroadcast
                   /\ LET new == djSessions'[lastOp'.sid][key]
                      IN  IF action = "stop"
                          THEN ~new.playing /\ new.position = 0
                          ELSE new.synced = ~old.synced
      ]_vars

\* C18 (SpecPlayback): on a deck with a loaded track, play sets playing,
\* pause clears it, stop clears it and sets position 0, cue clears it and
\* sets the position only when one is given, sync flips synced and keeps
\* playing and position; every other field of the deck, the other deck, the
\* mixer and the audio levels are unchanged, the answer is 200 and one
\* playback_control event with that deck, action and deck state is broadcast.
C18_PlaybackEffects ==
    [][(PlaybackOn(lastOp', djSessions)
          /\ djSessions[lastOp'.sid][DeckKey(lastOp'.arg.deck)].track # Null) =>
          LET key == DeckKey(lastOp'.arg.deck)
              other == IF key = "deck_a" THEN "deck_b" ELSE "deck_a"
              body == lastOp'.arg.body
              old == djSessions[lastOp'.sid]
              new == djSessions'[lastOp'.sid]
              expected ==
                 CASE body.action = "play" -> [old[key] EXCEPT !.playing = TRUE]
                   [] body.action = "pause" -> [old[key] EXCEPT !.playing = FALSE]
                   [] body.action = "stop" ->
                         [old[key] EXCEPT !.playing = FALSE, !.position = 0]
                   [] body.action = "cue" ->
                         [old[key] EXCEPT
                             !.playing = FALSE,
                             !.position = IF Has(body, "position")
                                          THEN body.position ELSE @]
                   [] body.action = "sync" ->
                         [old[key] EXCEPT !.synced = ~old[key].synced]
          IN  /\ new[key] = expected
              /\ new[other] = old[other]
              /\ new.mixer = old.mixer
              /\ new.audio_levels = old.audio_levels
              /\ response'.status = 200
              /\ bcast' = Broadcast(lastOp'.sid,
                             [type |-> "playback_control", deck |-> lastOp'.arg.deck,
                              action |-> body.action, data |-> new[key]])
      ]_vars

\* 'stop' on deck A, loaded, synced and cued to 30 before, heard by c1 while
\* deck B plays on
C18_StopWitness ==
    /\ lastOp.op = "http_playback"
    /\ lastOp.arg = [deck |-> "A", body |-> [action |-> "stop"]]
    /\ response.status = 200
    /\ djSessions[lastOp.sid].deck_a.position = 0
    /\ djSessions[lastOp.sid].deck_a.synced
    /\ djSessions[lastOp.sid].deck_b.playing
    /\ djSessions[lastOp.sid].deck_b.position = 30
    /\ sent["c1"] # <<>>
    /\ sent["c1"][1].action = "stop"

\* C19 (SpecHttp): a load-track, playback or bpm request whose deck label is
\* neither 'A' nor 'B' answers 400 'Deck must be "A" or "B"', and a playback
\* request with a valid deck whose action is missing or not one of play,
\* pause, stop, cue, sync answers 400 naming the valid actions; in both cases,
\* whether the session exists or not, no session and no subscriber set
\* changes, nothing is broadcast and no connection is sent anything.
C19_InvalidRejected ==
    [][(lastOp'.op \in {"http_load_track", "http_playback", "http_bpm"}) =>
          LET deck == lastOp'.arg.deck
              body == lastOp'.arg.body
              badDeck == deck \notin {"A", "B"}
              badAction ==
                 /\ lastOp'.op = "http_playback"
                 /\ ~(Has(body, "action") /\
                      body.action \in {"play", "pause", "stop", "cue", "sync"})
          IN  (badDeck \/ badAction) =>
                 /\ response' = IF badDeck THEN InvalidDeck ELSE InvalidAction
                 /\ response'.status = 400
                 /\ djSessions' = djSessions
                 /\ djConnections' = djConnections
                 /\ bcast' = NoBroadcast
                 /\ sent' = NoneSent
      ]_vars

\* a load-track request for deck 'C' of the stored session, whose deck B
\* is empty and to which c1 is subscribed: 400 and deck B still empty
C19_InvalidDeckWitness ==
    /\ lastOp.op = "http_load_track"
    /\ lastOp.arg.deck = "C"
    /\ lastOp.sid \in DOMAIN djSessions
    /\ response = InvalidDeck
    /\ djSessions[lastOp.sid].deck_b.track = Null
    /\ djSessions[lastOp.sid].deck_a.track # Null
    /\ Recipients(djConnections, readyState, lastOp.sid) = {"c1"}

\* C20 (SpecLoad): a successful load-track on deck D of session S leaves D
\* with a track holding the given title, D not playing (also when it played
\* before), D at position 0 and D's bpm the supplied (positive) bpm, or null
\* when none was supplied; the other deck, the mixer and the audio levels are
\* unchanged, and exactly one track_loaded event for D, carrying D's new
\* state, is broadcast to S.
C20_LoadTrackPostcondition ==
    [][(lastOp'.op = "http_load_track" /\ response'.status = 200) =>
          LET key == DeckKey(lastOp'.arg.deck)
              other == IF key = "deck_a" THEN "deck_b" ELSE "deck_a"
              body == lastOp'.arg.body
              old == djSessions[lastOp'.sid]
              new == djSessions'[lastOp'.sid]
          IN  /\ new[key].track # Null
              /\ new[key].track.title =
                    IF Has(body, "track_title") THEN body.track_title
                                                ELSE "Unknown Track"
              /\ ~new[key].playing
              /\ new[key].position = 0
              /\ new[key].bpm = IF Has(body, "bpm") THEN <<body.bpm>> ELSE Null
              /\ new[other] = old[other]
              /\ new.mixer = old.mixer
              /\ new.audio_levels = old.audio_levels
              /\ bcast' = Broadcast(lastOp'.sid,
                             [type |-> "track_loaded", deck |-> lastOp'.arg.deck,
                              data |-> new[key]])
              /\ \A c \in Recipients(djConnections, readyState, lastOp'.sid) :
                    sent'[c] = <<bcast'[1].msg>>
      ]_vars

\* a track without tempo is loaded onto deck A, replacing the track loaded
\* with tempo 120 at time 0: A is stopped with bpm null while deck B plays on
\* and the master volume stays 9; c1 is sent the event
C20_ReloadWitness ==
    /\ lastOp.op = "http_load_track"
    /\ lastOp.arg = [deck |-> "A", body |-> [track_id |-> "t2"]]
    /\ response.status = 200
    /\ now = 1
    /\ djSessions[lastOp.sid].deck_a.track.id = "t2"
    /\ djSessions[lastOp.sid].deck_a.bpm = Null
    /\ djSessions[lastOp.sid].deck_b.playing
    /\ djSessions[lastOp.sid].deck_b.bpm = <<120>>
    /\ djSessions[lastOp.sid].mixer.master_volume = 9
    /\ sent["c1"] # <<>>

\* the six level fields of a session's audio_levels
LevelFields == DOMAIN NewAudioLevels(0) \ {"updated_at"}

\* the last handler run is an applied audio-levels update (HTTP or WebSocket)
AudioLevelsApplied(op, calls) ==
    /\ op.op \in {"http_audio_levels", "ws_audio_levels"}
    /\ calls # NoBroadcast

\* C21 (SpecOrder): an audio-levels update, over HTTP or WebSocket, that
\* supplies only some of the six level fields gives the supplied fields their
\* new values and leaves every level field it did not supply as it was.
C21_AudioLevelsMerged ==
    [][AudioLevelsApplied(lastOp', bcast') =>
          LET old == djSessions[lastOp'.sid].audio_levels
              new == djSessions'[lastOp'.sid].audio_levels
          IN  \A k \in LevelFields :
                 IF k \in DOMAIN lastOp'.arg
                 THEN k \in DOMAIN new /\ new[k] = lastOp'.arg[k]
                 ELSE k \in DOMAIN old => (k \in DOMAIN new /\ new[k] = old[k])
      ]_vars

\* the commands that change a session and leave it in the store
ChangingCommands == (HttpCommands \cup WsCommands) \ {"http_delete"}

\* C22 (SpecSync): every successful command that changes a session (patch,
\* load track, playback, mixer, deck update, bpm, audio levels, over HTTP or
\* WebSocket) sets the session's updated_at to the time of the command.
C22_UpdatedAtRefreshed ==
    [][(lastOp'.op \in ChangingCommands /\ bcast' # NoBroadcast) =>
          djSessions'[lastOp'.sid].updated_at = now'
      ]_vars

\* C23 (SpecPatch): the clock never going back, no command lowers the
\* updated_at of a stored session, and no stored session is stamped later
\* than the clock; a patch whose body carries its own updated_at stamps the
\* time of the patch, not the body's value.
C23_UpdatedAtMonotone ==
    [][/\ \A sid \in DOMAIN djSessions \cap DOMAIN djSessions' :
             djSessions'[sid].updated_at >= djSessions[sid].updated_at
       /\ \A sid \in DOMAIN djSessions' : djSessions'[sid].updated_at <= now'
       /\ (lastOp'.op = "http_patch" /\ response'.status = 200) =>
             djSessions'[lastOp'.sid].updated_at = now'
      ]_vars

\* a session last changed at time 1 was patched at time 1 with an earlier
\* updated_at in the body, and is stamped 1
C23_PatchedStampWitness ==
    /\ lastOp.op = "http_patch"
    /\ response.status = 200
    /\ Has(lastOp.arg, "updated_at")
    /\ lastOp.arg.updated_at < now
    /\ now = 1
    /\ djSessions[lastOp.sid].updated_at = now
    /\ djSessions[lastOp.sid].mixer.master_volume = 9

\* C24 (SpecPatch): in every reachable state the session stored under key k
\* has id k, whatever operations ran, patches with an 'id' in the body
\* included.
C24_IdImmutable ==
    \A k \in DOMAIN djSessions : djSessions[k].id = k

\* C25 (SpecEnd): ending session S hands one session_ended event, stamped
\* with the time of the end, to every open subscriber of S and to nobody
\* else, and leaves S out of the store and of the registry; once S is ended
\* no handler broadcasts to S or replies with S's state, and a get of S
\* answers 404.
C25_EndSessionProtocol ==
    [][/\ (lastOp'.op = "http_delete" /\ response'.status = 200) =>
             LET sid == lastOp'.sid
                 event == [type |-> "session_ended",
                           data |-> [session_id |-> sid, ended_at |-> now']]
             IN  /\ \A c \in Conns :
                       sent'[c] = IF c \in Recipients(djConnections, readyState, sid)
                                  THEN <<event>> ELSE <<>>
                 /\ sid \notin DOMAIN djSessions'
                 /\ sid \notin DOMAIN djConnections'
       /\ \A sid \in ended :
             /\ bcast' # NoBroadcast => bcast'[1].sid # sid
             /\ (lastOp'.op = "ws_join_session" /\ lastOp'.sid = sid) =>
                   sent' = NoneSent
             /\ (lastOp'.op = "http_get" /\ lastOp'.sid = sid) =>
                   response' = NotFound
      ]_vars

\* C26 (SpecEnd): a join_session naming an id that has no session sends
\* nothing, to the joining connection or to anyone else, broadcasts nothing
\* and changes no session, while the connection becomes bound to the id and a
\* member of the id's subscriber set.
C26_JoinUnknownSilent ==
    [][(lastOp'.op = "ws_join_session" /\ lastOp'.sid \notin DOMAIN djSessions) =>
          /\ sent' = NoneSent
          /\ bcast' = NoBroadcast
          /\ djSessions' = djSessions
          /\ wsSessionId'[lastOp'.conn] = lastOp'.sid
          /\ lastOp'.sid \in MemberOf(djConnections', lastOp'.conn)
      ]_vars

\* c1 joined the id of an ended session while c2, open, was subscribed to it
C26_JoinEndedWitness ==
    /\ lastOp.op = "ws_join_session"
    /\ lastOp.conn = "c1"
    /\ lastOp.sid \in ended
    /\ lastOp.sid \notin DOMAIN djSessions
    /\ readyState["c2"] = "OPEN"
    /\ djConnections[lastOp.sid] = {"c1", "c2"}
    /\ wsSessionId["c1"] = lastOp.sid
    /\ sent = NoneSent

\* C27 (SpecGateway): a connection that has sent no join_session is bound to
\* no session; its audio_levels, mixer_update and deck_update messages change
\* no session, broadcast nothing and send nothing, and no broadcast is handed
\* to it while it stays unbound.
C27_NoEffectBeforeJoin ==
    [][/\ (lastOp'.op \in WsCommands /\ wsSessionId[lastOp'.conn] = NullId) =>
             /\ djSessions' = djSessions
             /\ djConnections' = djConnections
             /\ bcast' = NoBroadcast
             /\ sent' = NoneSent
       /\ \A c \in Conns :
             (wsSessionId'[c] = NullId /\ bcast' # NoBroadcast) => sent'[c] = <<>>
       /\ \A c \in Conns :
             wsSessionId[c] = NullId =>
                \/ wsSessionId'[c] = NullId
                \/ (lastOp'.op = "ws_join_session" /\ lastOp'.conn = c)
      ]_vars

\* c1, open and not joined, sent a mixer_update while c2 was an open
\* subscriber of the stored session: nothing happened
C27_UnjoinedUpdateWitness ==
    /\ lastOp.op = "ws_mixer_update"
    /\ lastOp.conn = "c1"
    /\ wsSessionId["c1"] = NullId
    /\ DeckSession \in DOMAIN djSessions
    /\ Recipients(djConnections, readyState, DeckSession) = {"c2"}
    /\ sent = NoneSent
    /\ bcast = NoBroadcast

\* C29 (SpecGateway): an inbound message that does not parse, or whose type
\* is none of join_session, audio_levels, mixer_update, deck_update and
\* heartbeat, changes no session and no subscriber set, sends nothing to any
\* connection and broadcasts nothing, and the sender stays open, bound and
\* subscribed as it was.
C29_UnknownDropped ==
    [][lastOp'.op = "ws_unknown" =>
          /\ djSessions' = djSessions
          /\ djConnections' = djConnections
          /\ sent' = NoneSent
          /\ bcast' = NoBroadcast
          /\ readyState' = readyState
          /\ readyState'[lastOp'.conn] = "OPEN"
          /\ wsSessionId' = wsSessionId
      ]_vars

\* c1, an open subscriber of the stored session next to c2, sent a message
\* of no known type and is still open and subscribed
C29_SubscriberKeptWitness ==
    /\ lastOp.op = "ws_unknown"
    /\ lastOp.conn = "c1"
    /\ DeckSession \in DOMAIN djSessions
    /\ wsSessionId["c1"] = DeckSession
    /\ Recipients(djConnections, readyState, DeckSession) = {"c1", "c2"}
    /\ sent = NoneSent

\* C30 (SpecGateway): a heartbeat, from a connection that joined a session or
\* not, is answered with exactly one heartbeat_ack, sent to the sender and to
\* nobody else; it changes no session, no subscriber set and no binding, and
\* broadcasts nothing.
C30_HeartbeatAck ==
    [][lastOp'.op = "ws_heartbeat" =>
          /\ \A c \in Conns :
                sent'[c] = IF c = lastOp'.conn
                           THEN <<[type |-> "heartbeat_ack"]>> ELSE <<>>
          /\ bcast' = NoBroadcast
          /\ djSessions' = djSessions
          /\ djConnections' = djConnections
          /\ readyState' = readyState
          /\ wsSessionId' = wsSessionId
      ]_vars

\* c1 sent a heartbeat while c1 and c2 were open subscribers of the stored
\* session: c1 got the acknowledgement, c2 nothing
C30_JoinedHeartbeatWitness ==
    /\ lastOp.op = "ws_heartbeat"
    /\ lastOp.conn = "c1"
    /\ DeckSession \in DOMAIN djSessions
    /\ Recipients(djConnections, readyState, DeckSession) = {"c1", "c2"}
    /\ Receivers = {"c1"}
    /\ sent["c1"] = <<[type |-> "heartbeat_ack"]>>

\* C28 (SpecDead): a broadcast to session S hands the event, once, to every
\* subscriber of S whose socket is OPEN and to no other connection, whatever
\* the number of subscribers of S that are not OPEN; the command that
\* broadcast is applied and, over HTTP, answered 200.
C28_DeadSubscribersSkipped ==
    [][bcast' # NoBroadcast =>
          LET sid == bcast'[1].sid
              msg == bcast'[1].msg
          IN  /\ Len(bcast') = 1
              /\ \A c \in Conns :
                    sent'[c] = IF /\ sid \in DOMAIN djConnections
                                  /\ c \in djConnections[sid]
                                  /\ readyState[c] = "OPEN"
                               THEN <<msg>> ELSE <<>>
              /\ djSessions'[sid].mixer = msg.data
              /\ lastOp'.conn = NoConn => response'.status = 200
      ]_vars

\* an HTTP mixer update of a session with subscribers c1, c2 and c3, of which
\* c3 is closing: c1 and c2 were handed the event and the request answered 200
C28_ClosingSubscriberWitness ==
    /\ lastOp.op = "http_mixer"
    /\ response.status = 200
    /\ DeckSession \in DOMAIN djConnections
    /\ djConnections[DeckSession] = {"c1", "c2", "c3"}
    /\ readyState["c3"] = "CLOSING"
    /\ Receivers = {"c1", "c2"}
    /\ sent["c1"] = sent["c2"]

\* the create request carries a session name
Named(body) == Has(body, "session_name") /\ body.session_name # ""

\* C31 (SpecCreate): a create request without a session name answers 400 and
\* leaves the store as it was; one with a name answers 200 and adds exactly
\* one session to the store, not live, both decks without track, not playing
\* and at position 0, the mixer at its default values, and changes no other
\* session.
C31_CreateContract ==
    [][lastOp'.op = "http_create" =>
          IF ~Named(lastOp'.arg)
          THEN /\ response'.status = 400
               /\ djSessions' = djSessions
          ELSE LET sid == lastOp'.sid
               IN  /\ response'.status = 200
                   /\ DOMAIN djSessions' = DOMAIN djSessions \cup {sid}
                   /\ Cardinality(DOMAIN djSessions') =
                         Cardinality(DOMAIN djSessions) + 1
                   /\ \A k \in DOMAIN djSessions : djSessions'[k] = djSessions[k]
                   /\ djSessions'[sid].is_live = FALSE
                   /\ \A key \in {"deck_a", "deck_b"} :
                         /\ djSessions'[sid][key].track = Null
                         /\ djSessions'[sid][key].playing = FALSE
                         /\ djSessions'[sid][key].position = 0
                   /\ djSessions'[sid].mixer =
                         [crossfader |-> 0, master_volume |-> 8,
                          channel_a_volume |-> 8, channel_b_volume |-> 8,
                          sync_enabled |-> FALSE]
      ]_vars

\* C34 (SpecRegistry): no entry of the subscriber registry holds an empty
\* set, and the close of the last connection in the set of the session it is
\* bound to removes the entry of that session.
C34_NoEmptyEntry ==
    [][/\ \A k \in DOMAIN djConnections' : djConnections'[k] # {}
       /\ (/\ lastOp'.op = "ws_close"
           /\ Truthy(lastOp'.sid)
           /\ lastOp'.sid \in DOMAIN djConnections
           /\ djConnections[lastOp'.sid] = {lastOp'.conn}) =>
             lastOp'.sid \notin DOMAIN djConnections'
      ]_vars

\* c1, the only subscriber of a stored session, closed: the session is still
\* stored and its registry entry is gone, while c2's entry remains
C34_LastLeftWitness ==
    /\ lastOp.op = "ws_close"
    /\ lastOp.conn = "c1"
    /\ lastOp.arg.subscribed
    /\ lastOp.sid \in DOMAIN djSessions
    /\ lastOp.sid \notin DOMAIN djConnections
    /\ MemberOf(djConnections, "c2") # {}

\* C35 (SpecDeckUpdate): in every reachable state, a deck of a stored session
\* whose playing flag is true has a track.
C35_PlayingHasTrack ==
    \A sid \in DOMAIN djSessions : \A key \in {"deck_a", "deck_b"} :
        djSessions[sid][key].playing => djSessions[sid][key].track # Null

\* C36 (SpecDeckUpdate): a deck_update with deck 'A' changes deck_a and not
\* deck_b, one with deck 'B' changes deck_b and not deck_a, and one whose
\* deck label is missing or is neither 'A' nor 'B' changes neither deck and
\* broadcasts nothing.
C36_DeckUpdateTargets ==
    [][(lastOp'.op = "ws_deck_update" /\ lastOp'.sid \in DOMAIN djSessions) =>
          LET old == djSessions[lastOp'.sid]
              new == djSessions'[lastOp'.sid]
              deck == lastOp'.arg.deck
          IN  /\ deck = "A" => new.deck_b = old.deck_b /\ bcast' # NoBroadcast
              /\ deck = "B" => new.deck_a = old.deck_a /\ bcast' # NoBroadcast
              /\ deck \notin {"A", "B"} =>
                    /\ new.deck_a = old.deck_a
                    /\ new.deck_b = old.deck_b
                    /\ bcast' = NoBroadcast
      ]_vars

\* C37 (SpecDeck): from the same session state and with the same payload,
\* whatever its keys, the HTTP mixer post and the WebSocket mixer_update leave
\* the same mixer and broadcast the same mixer_updated event: the mixer a
\* mixer update leaves is the one either path computes from the payload.
C37_MixerPathsEquivalent ==
    [][(lastOp'.op \in {"http_mixer", "ws_mixer_update"} /\ bcast' # NoBroadcast) =>
          LET old == djSessions[lastOp'.sid].mixer
              viaHttp == AssignKnown(old, lastOp'.arg)
              viaWs == Spread(old, lastOp'.arg)
          IN  /\ viaHttp = viaWs
              /\ djSessions'[lastOp'.sid].mixer = viaHttp
              /\ bcast'[1].msg = [type |-> "mixer_updated", data |-> viaWs]
      ]_vars

\* C32: streaming start succeeds and moves status to 'streaming' exactly when
\* status is 'connected', otherwise it answers 400 and leaves the stream state
\* unchanged; streaming stop succeeds and moves status to 'connected' exactly
\* when status is 'streaming', otherwise it answers 400 and leaves the state
\* unchanged; status is always one of the documented stream states.
C32_StreamStateMachine ==
    [][/\ streamState.status \in StreamStates
       /\ streamState'.status \in StreamStates
       /\ lastOp'.op = "stream_start" =>
           IF streamState.status = "connected"
           THEN /\ response'.status = 200
                /\ response'.success
                /\ streamState'.status = "streaming"
           ELSE /\ response'.status = 400
                /\ ~response'.success
                /\ streamState' = streamState
       /\ lastOp'.op = "stream_stop" =>
           IF streamState.status = "streaming"
           THEN /\ response'.status = 200
                /\ response'.success
                /\ streamState'.status = "connected"
           ELSE /\ response'.status = 400
                /\ ~response'.success
                /\ streamState' = streamState]_vars

\* a stream that was started is stopped and is connected again
C32_StoppedWitness ==
    /\ lastOp.op = "stream_stop"
    /\ response.status = 200
    /\ streamState.status = "connected"
    /\ streamState.bytesSent > 0

\* C38: whenever status is not 'streaming' the currentListeners count is 0.
C38_ListenersOnlyWhileStreaming ==
    streamState.status # "streaming" => streamState.currentListeners = 0

\* talkover is on only while the microphone is on
TalkoverNeedsMicrophone(audio) ==
    (audio.talkover.enabled \/ audio.talkover.active) => audio.microphone.enabled

\* C39: talkover.enabled and talkover.active are true only while
\* microphone.enabled is true; talkover enable with the microphone off answers
\* 400 and leaves the state unchanged; stopping the microphone turns talkover off.
C39_TalkoverRequiresMicrophone ==
    [][/\ TalkoverNeedsMicrophone(audioSystemState)
       /\ TalkoverNeedsMicrophone(audioSystemState')
       /\ (lastOp'.op = "talkover_enable" /\ ~audioSystemState.microphone.enabled) =>
             /\ response'.status = 400
             /\ audioSystemState' = audioSystemState
       /\ lastOp'.op = "microphone_stop" =>
             /\ ~audioSystemState'.microphone.enabled
             /\ ~audioSystemState'.talkover.enabled
             /\ ~audioSystemState'.talkover.active]_vars

\* talkover was on, the microphone was stopped, and talkover enable is refused
C39_RefusedAfterStopWitness ==
    /\ lastOp.op = "talkover_enable"
    /\ response.status = 400
    /\ talkoverBase # Null
    /\ ~audioSystemState.microphone.enabled
    /\ ~audioSystemState.talkover.enabled

\* C40: whenever talkover goes from active to inactive, master volume is set
\* back to the value it had when talkover most recently became active.
C40_VolumeRestored ==
    [][(audioSystemState.talkover.active /\ ~audioSystemState'.talkover.active) =>
           audioSystemState'.master.volume = talkoverBase[1]]_vars

\* C33: a POST to /api/video/stream/start naming at least one configured
\* platform marks every configured platform it names as streaming and sets the
\* video is_live flag.
C33_VideoStartReachable ==
    [][(/\ lastOp'.op = "video_stream_post"
        /\ lastOp'.arg.segment = "start"
        /\ Len(Configured(videoState.streaming.platforms,
                          Default(lastOp'.arg.body, "platforms", <<>>))) > 0) =>
           /\ \A p \in SeqRange(Configured(videoState.streaming.platforms,
                                           Default(lastOp'.arg.body, "platforms", <<>>))) :
                 videoState'.streaming.platforms[p].streaming
           /\ videoState'.streaming.is_live]_vars

====
